---- MODULE Spec2Model ----
(***************************************************************************)
(* incache: a thread-safe in-memory cache with per-item TTL, a background  *)
(* cleaner, metrics and insertion/eviction events.                         *)
(*                                                                         *)
(* The cache and the goroutines it spawned are one record (see Init); the   *)
(* methods of Cache are operators from such a record to the record after    *)
(* the call.  Spec runs the public operations one caller at a time; SpecC   *)
(* runs them from several goroutines, one lock-delimited step at a time.    *)
(***************************************************************************)
EXTENDS Integers, Sequences, FiniteSets, Bags, TLC

\* ---------------------------------------------------------------- bounds
\* The clock runs over 1..MaxTime.
MaxTime == 3
\* Number of public operations one behaviour of Spec performs.
MaxOps == 3
\* Number of goroutines calling the cache in SpecC.
NumProcs == 2
\* Number of calls the goroutines of SpecC make together.
MaxCalls == 3
\* Longest list of keys handed to GetMultiple.
MaxBatch == 2

\* ------------------------------------------------------------- the domain
Keys == {"a", "b"}
\* The nil interface value.
NIL == "nil"
Values == {NIL, "v1", "v2"}
\* Durations a caller passes; <= 0 means "never expires".
TTLs == {-1, 0, 1, 2}
\* Callbacks a caller can register.
Callbacks == {"f"}
\* defaultConfig().ttl, five minutes, in ticks of the model's clock.
DefaultTTL == 2
\* defaultConfig().cleanupInterval, five minutes as well.
DefaultCleanupInterval == 2
\* No record of a set (history only).
None == [value |-> NIL, ttl |-> 0, at |-> 0, known |-> FALSE, swept |-> FALSE]

\* ------------------------------------------------------------------- time
\* time.Time{} : the zero instant, which time.Now() never returns.
ZeroTime == 0
IsZero(t) == t = ZeroTime
After(t, u) == t > u
Before(t, u) == t < u

\* ------------------------------------------------------------------- Item
ZeroItem == [Value |-> NIL, TTL |-> 0, ExpiresAt |-> ZeroTime]

\* Item.setExpiration, with t the reading of time.Now().
setExpiration(i, t) ==
    IF i.TTL <= 0 THEN i ELSE [i EXCEPT !.ExpiresAt = t + i.TTL]

newItem(value, ttl, t) ==
    setExpiration([Value |-> value, TTL |-> ttl, ExpiresAt |-> ZeroTime], t)

CanExpire(i) == ~IsZero(i.ExpiresAt)

\* A variant of Expired that also counts the expiry instant itself as expired
\* (!now.Before(ExpiresAt) in place of now.After(ExpiresAt)); C1 tells the two
\* apart.
Expired_AtExpiry(i, t) ==
    IF ~CanExpire(i) THEN FALSE ELSE ~Before(t, i.ExpiresAt)

Expired(i, t) ==
    IF ~CanExpire(i) THEN FALSE ELSE After(t, i.ExpiresAt)

\* m[key] of a Go map: the zero value when the key is missing.
Lookup(items, key) == IF key \in DOMAIN items THEN items[key] ELSE ZeroItem

\* delete(m, key) of a Go map.
MapDelete(m, key) == [k \in DOMAIN m \ {key} |-> m[k]]

\* m[key] = v of a Go map.
MapPut(m, key, v) == [k \in DOMAIN m \cup {key} |-> IF k = key THEN v ELSE m[k]]

\* make(map[...]...)
EmptyMap == [k \in {} |-> ZeroItem]

\* ---------------------------------------------------------------- metrics
newRealMetrics ==
    [kind |-> "realMetrics", insertions |-> 0, hits |-> 0, misses |-> 0, evictions |-> 0]

\* A variant of newNoMetrics whose counters count; C24 tells the two apart.
newNoMetrics_Counts ==
    [kind |-> "realMetrics", insertions |-> 0, hits |-> 0, misses |-> 0, evictions |-> 0]

\* The metrics of a cache built without WithMetrics(): every read is 0 and
\* every update does nothing.
newNoMetrics ==
    [kind |-> "noMetrics", insertions |-> 0, hits |-> 0, misses |-> 0, evictions |-> 0]

Insertions(m) == IF m.kind = "realMetrics" THEN m.insertions ELSE 0
Hits(m) == IF m.kind = "realMetrics" THEN m.hits ELSE 0
Misses(m) == IF m.kind = "realMetrics" THEN m.misses ELSE 0
Evictions(m) == IF m.kind = "realMetrics" THEN m.evictions ELSE 0

reset(m) ==
    IF m.kind = "realMetrics"
    THEN [m EXCEPT !.insertions = 0, !.hits = 0, !.misses = 0, !.evictions = 0]
    ELSE m

incrementInsertions(m) ==
    IF m.kind = "realMetrics" THEN [m EXCEPT !.insertions = @ + 1] ELSE m

incrementHits(m) ==
    IF m.kind = "realMetrics" THEN [m EXCEPT !.hits = @ + 1] ELSE m

incrementMisses(m) ==
    IF m.kind = "realMetrics" THEN [m EXCEPT !.misses = @ + 1] ELSE m

incrementEvictions(m) ==
    IF m.kind = "realMetrics" THEN [m EXCEPT !.evictions = @ + 1] ELSE m

\* ----------------------------------------------------------------- events
\* An interface{} handed to a callback: its dynamic type and its content.
BoxValue(v) == [dyn |-> "value", item |-> [ZeroItem EXCEPT !.Value = v]]
BoxItem(i) == [dyn |-> "Item", item |-> i]

newEventHandlers ==
    [wg |-> 0, onInsertion |-> "default", onEviction |-> "default"]

\* A variant of Dispatch that starts the goroutine without wg.Add(1); C11
\* tells the two apart.
Dispatch_NoAdd(c, kind, fn, key, boxed) ==
    IF fn = "default"
    THEN c
    ELSE [c EXCEPT !.goroutines = @ (+) SetToBag({[kind |-> kind, fn |-> fn,
                                                   key |-> key, arg |-> boxed]})]

\* The closure a registration stores: wg.Add(1), then a goroutine that runs
\* fn(key, value) and wg.Done().  The default handlers do nothing.
Dispatch(c, kind, fn, key, boxed) ==
    IF fn = "default"
    THEN c
    ELSE [c EXCEPT !.eventHandlers.wg = @ + 1,
                   !.goroutines = @ (+) SetToBag({[kind |-> kind, fn |-> fn,
                                                   key |-> key, arg |-> boxed]})]

\* A variant of onInsertion that tells of new keys only, not of a key that
\* is overwritten; C26 tells the two apart.
onInsertion_OnlyNewKeys(c, key, value) ==
    IF key \in DOMAIN c.items THEN c
    ELSE Dispatch(c, "insertion", c.eventHandlers.onInsertion, key, BoxValue(value))

\* c.eventHandlers.onInsertion(key, value), as set calls it.
onInsertion(c, key, value) ==
    Dispatch(c, "insertion", c.eventHandlers.onInsertion, key, BoxValue(value))

\* evict hands over c.items[key], an Item, as the callback's value.
onEviction(c, key, item) ==
    Dispatch(c, "eviction", c.eventHandlers.onEviction, key, BoxItem(item))

\* A variant of OnInsertionReg that stores the closure in the eviction slot;
\* C27 tells the two apart.
OnInsertionReg_OtherSlot(c, fn) == [c EXCEPT !.eventHandlers.onEviction = fn]

\* eventHandlers.OnInsertion(fn) and eventHandlers.OnEviction(fn): the slot
\* is assigned a closure around fn.
OnInsertionReg(c, fn) == [c EXCEPT !.eventHandlers.onInsertion = fn]
OnEvictionReg(c, fn) == [c EXCEPT !.eventHandlers.onEviction = fn]

\* ---------------------------------------------------------------- cleaner
\* c.cleaner == nil: no cleaner was made.
NilCleaner == [nil |-> TRUE, cleanupInterval |-> 0, pc |-> "none", keys |-> {}]

\* newCleaner(cleanupInterval); pc is where the cleaner's goroutine is, keys
\* the expiredKeys slice of the DeleteExpired it is running.
newCleaner(cleanupInterval) ==
    [nil |-> FALSE, cleanupInterval |-> cleanupInterval, pc |-> "new", keys |-> {}]

\* cleaner.start: the goroutine is launched and waits in its select.
start(cl) == [cl EXCEPT !.pc = "select"]

\* A variant of the loop's closeCh case that leaves the select only (break
\* in place of return) and so stays in the for loop; C12 tells the two apart.
exitLoop_BreaksSelect(cl) == [cl EXCEPT !.pc = "select"]

\* The loop's case <-c.closeCh: return.
exitLoop(cl) == [cl EXCEPT !.pc = "returned"]

\* ------------------------------------------------------------------ Cache
\* A variant of New that starts a cleaner whatever the interval; C14 tells
\* the two apart.
New_AlwaysCleans(conf) ==
    [items |-> EmptyMap,
     expirationsQueue |-> [k \in {} |-> ZeroTime],
     eventHandlers |-> newEventHandlers,
     metrics |-> IF conf.enableMetrics THEN newRealMetrics ELSE newNoMetrics,
     cleaner |-> start(newCleaner(conf.cleanupInterval)),
     goroutines |-> EmptyBag]

\* New(conf...): the cache built from a Config, its cleaner started when
\* cleanupInterval > 0, and no callback goroutine yet.
New(conf) ==
    [items |-> EmptyMap,
     expirationsQueue |-> [k \in {} |-> ZeroTime],
     eventHandlers |-> newEventHandlers,
     metrics |-> IF conf.enableMetrics THEN newRealMetrics ELSE newNoMetrics,
     cleaner |-> IF conf.cleanupInterval > 0
                 THEN start(newCleaner(conf.cleanupInterval))
                 ELSE NilCleaner,
     goroutines |-> EmptyBag]

\* A variant of set that never writes the expirations index; C13 tells the
\* two apart.
set_NoIndex(c, key, value, ttl, t) ==
    LET c1 == onInsertion(c, key, value)
        item == newItem(value, ttl, t)
        c2 == [c1 EXCEPT !.items = MapPut(@, key, item)]
    IN  [c2 EXCEPT !.metrics = incrementInsertions(@)]

\* A variant of set that counts an insertion only when the key is new; C9
\* tells the two apart.
set_CountsNewKeys(c, key, value, ttl, t) ==
    LET c1 == onInsertion(c, key, value)
        item == newItem(value, ttl, t)
        c2 == [c1 EXCEPT !.items = MapPut(@, key, item)]
        c3 == IF CanExpire(item)
              THEN [c2 EXCEPT !.expirationsQueue = MapPut(@, key, item.ExpiresAt)]
              ELSE c2
    IN  IF key \in DOMAIN c.items THEN c3
        ELSE [c3 EXCEPT !.metrics = incrementInsertions(@)]

\* A variant of set that treats an overwrite as the eviction of the item
\* that was there; C34 tells the two apart.
set_EvictsOld(c, key, value, ttl, t) ==
    LET c0 == IF key \in DOMAIN c.items
              THEN [onEviction(c, key, c.items[key]) EXCEPT
                       !.metrics = incrementEvictions(@)]
              ELSE c
        c1 == onInsertion(c0, key, value)
        item == newItem(value, ttl, t)
        c2 == [c1 EXCEPT !.items = MapPut(@, key, item)]
        c3 == IF CanExpire(item)
              THEN [c2 EXCEPT !.expirationsQueue = MapPut(@, key, item.ExpiresAt)]
              ELSE c2
    IN  [c3 EXCEPT !.metrics = incrementInsertions(@)]

\* Cache.set, its critical section; t is time.Now() inside newItem.
set(c, key, value, ttl, t) ==
    LET c1 == onInsertion(c, key, value)
        item == newItem(value, ttl, t)
        c2 == [c1 EXCEPT !.items = MapPut(@, key, item)]
        c3 == IF CanExpire(item)
              THEN [c2 EXCEPT !.expirationsQueue = MapPut(@, key, item.ExpiresAt)]
              ELSE c2
    IN  [c3 EXCEPT !.metrics = incrementInsertions(@)]

\* What Cache.get reads under the read lock: the value it returns.
getValue(c, key, t) ==
    LET item == Lookup(c.items, key)
        value == item.Value
    IN  IF value = NIL THEN NIL
        ELSE IF Expired(item, t) THEN NIL
        ELSE value
\* A variant of get that records a hit whenever the key is in the map, expired
\* or not; C2 tells the two apart.
get_HitIfPresent(c, key, t) ==
    LET v == getValue(c, key, t)
    IN  [value |-> v,
         c |-> IF key \in DOMAIN c.items /\ Lookup(c.items, key).Value # NIL
               THEN [c EXCEPT !.metrics = incrementHits(@)]
               ELSE [c EXCEPT !.metrics = incrementMisses(@)]]

\* A variant of get that drops the expired item it comes upon; C22 tells
\* the two apart.
get_EvictsExpired(c, key, t) ==
    LET v == getValue(c, key, t)
        item == Lookup(c.items, key)
    IN  [value |-> v,
         c |-> IF v # NIL
               THEN [c EXCEPT !.metrics = incrementHits(@)]
               ELSE IF item.Value # NIL
               THEN [c EXCEPT !.metrics = incrementMisses(@),
                              !.items = MapDelete(@, key),
                              !.expirationsQueue = MapDelete(@, key)]
               ELSE [c EXCEPT !.metrics = incrementMisses(@)]]

\* Cache.get: the returned value and the cache after the call.
get(c, key, t) ==
    LET v == getValue(c, key, t)
    IN  [value |-> v,
         c |-> IF v = NIL
               THEN [c EXCEPT !.metrics = incrementMisses(@)]
               ELSE [c EXCEPT !.metrics = incrementHits(@)]]

\* A variant of evict that forgets the key's entry of the expirations index;
\* C20 tells the two apart.
evict_KeepsIndex(c, key) ==
    LET value == Lookup(c.items, key)
        c1 == onEviction(c, key, value)
        c2 == [c1 EXCEPT !.items = MapDelete(@, key)]
    IN  [c2 EXCEPT !.metrics = incrementEvictions(@)]

\* Cache.evict, its critical section.
evict(c, key) ==
    LET value == Lookup(c.items, key)
        c1 == onEviction(c, key, value)
        c2 == [c1 EXCEPT !.items = MapDelete(@, key),
                         !.expirationsQueue = MapDelete(@, key)]
    IN  [c2 EXCEPT !.metrics = incrementEvictions(@)]

\* The keys DeleteExpired collects at time t.
\* A collection test that agrees with Item.Expired: a key is collected only
\* once now is after its index entry.
expiredKeys_AfterExpiry(c, t) ==
    {key \in DOMAIN c.expirationsQueue : After(t, c.expirationsQueue[key])}

expiredKeys(c, t) ==
    {key \in DOMAIN c.expirationsQueue : ~Before(t, c.expirationsQueue[key])}

RECURSIVE evictEach(_, _)
\* for _, key := range expiredKeys { c.evict(key) }
evictEach(c, keys) ==
    IF keys = {} THEN c
    ELSE LET key == CHOOSE k \in keys : TRUE
         IN  evictEach(evict(c, key), keys \ {key})

\* Cache.DeleteExpired run by one caller alone.
DeleteExpired(c, t) == evictEach(c, expiredKeys(c, t))

\* A variant of Delete without the test of ok: it evicts whatever the key;
\* C21 tells the two apart.
Delete_Always(c, key) == evict(c, key)

\* Cache.Delete run by one caller alone.
Delete(c, key) == IF key \in DOMAIN c.items THEN evict(c, key) ELSE c

\* A variant of DeleteAll that evicts the keys one by one; C23 tells the
\* two apart.
DeleteAll_EvictsEach(c) == evictEach(c, DOMAIN c.items)

\* Cache.DeleteAll.
DeleteAll(c) == [c EXCEPT !.items = EmptyMap]

RECURSIVE GetMultiple_SkipsAbsent(_, _, _)
\* A variant of GetMultiple that appends the values found instead of filling
\* the positions; C30 tells the two apart.
GetMultiple_SkipsAbsent(c, keys, t) ==
    IF keys = <<>> THEN [values |-> <<>>, c |-> c]
    ELSE LET r == get(c, Head(keys), t)
             rest == GetMultiple_SkipsAbsent(r.c, Tail(keys), t)
         IN  [values |-> IF r.value = NIL THEN rest.values
                         ELSE <<r.value>> \o rest.values,
              c |-> rest.c]

RECURSIVE GetMultiple(_, _, _)
\* Cache.GetMultiple: values[i] = c.get(key) for i, key := range keys.
GetMultiple(c, keys, t) ==
    IF keys = <<>> THEN [values |-> <<>>, c |-> c]
    ELSE LET r == get(c, Head(keys), t)
             rest == GetMultiple(r.c, Tail(keys), t)
         IN  [values |-> <<r.value>> \o rest.values, c |-> rest.c]

\* A variant of GetDelete with its test inverted (evict when value == nil);
\* C19 tells the two apart.
GetDelete_Inverted(c, key, t) ==
    LET r == get(c, key, t)
    IN  [value |-> r.value,
         c |-> IF r.value = NIL THEN evict(r.c, key) ELSE r.c]

\* Cache.GetDelete run by one caller alone.
\* A GetDelete that removes the key whenever it is stored, whatever get
\* returned.
GetDelete_IfStored(c, key, t) ==
    LET r == get(c, key, t)
    IN  [value |-> r.value,
         c |-> IF key \in DOMAIN r.c.items THEN evict(r.c, key) ELSE r.c]

GetDelete(c, key, t) ==
    LET r == get(c, key, t)
    IN  [value |-> r.value,
         c |-> IF r.value # NIL THEN evict(r.c, key) ELSE r.c]

\* Cache.SetGetWithTTL run by one caller alone; t2 >= t is the clock at the get.
SetGetWithTTL(c, key, value, ttl, t, t2) == get(set(c, key, value, ttl, t), key, t2)

\* A variant of GetSetWithTTL that stores before it reads, the order of
\* SetGetWithTTL; C18 tells the two apart.
GetSetWithTTL_SetFirst(c, key, value, ttl, t) ==
    LET r == get(set(c, key, value, ttl, t), key, t)
    IN  [value |-> r.value, c |-> r.c]

\* Cache.GetSetWithTTL run by one caller alone: v := c.get(key), then
\* c.set(key, value, ttl), and v is returned.
GetSetWithTTL(c, key, value, ttl, t) ==
    LET r == get(c, key, t)
    IN  [value |-> r.value, c |-> set(r.c, key, value, ttl, t)]

\* Cache.Has.
Has(c, key) == key \in DOMAIN c.items

\* Cache.Keys: the keys of c.items, in the order the map's iteration yields,
\* which is any order: their set.
CacheKeys(c) == DOMAIN c.items

\* Cache.Len: len(c.items).
CacheLen(c) == Cardinality(DOMAIN c.items)

\* What a caller holds after m := c.Metrics(): nothing yet, a pointer to the
\* cache's metrics object, or an object of its own.  ops is the number of
\* operations the caller had performed when it obtained it.
NoHandle == [kind |-> "nil", obj |-> newNoMetrics, ops |-> 0]

\* A variant of Metrics that hands out a copy of the counters as they are;
\* C25 tells the two apart.
Metrics_Snapshot(c, n) == [kind |-> "copy", obj |-> c.metrics, ops |-> n]

\* Cache.Metrics: return c.metrics, an interface value that holds the pointer
\* New stored, *realMetrics or *noMetrics.
Metrics(c, n) == [kind |-> "pointer", obj |-> newNoMetrics, ops |-> n]

\* The object a handle gives access to: m.Insertions() and the like are
\* calls on it.
Deref(c, h) == IF h.kind = "pointer" THEN c.metrics ELSE h.obj

\* Cache.ResetMetrics.
ResetMetrics(c) == [c EXCEPT !.metrics = reset(@)]

\* One callback goroutine runs to its end: fn(key, value); wg.Done().
Finish(c, task) ==
    [c EXCEPT !.eventHandlers.wg = @ - 1,
              !.goroutines = @ (-) SetToBag({task})]

\* ------------------------------------------------------- the state machine
VARIABLES
    cache,      \* the Cache and the callback goroutines it spawned
    config,     \* the Config the cache was built with
    now,        \* the clock: what time.Now() returns
    lastOp,     \* the last public operation that returned, and what it returned
    invoked,    \* bag of the callback invocations that ran: fn(key, arg)
    stored,     \* history: per key, the last set not yet overwritten or deleted
    calls,      \* history: calls made since the last ResetMetrics
    nOps,       \* number of public operations performed
    pc,         \* SpecC: where each calling goroutine is in its call
    loc,        \* SpecC: the local variables of each calling goroutine
    readers     \* SpecC: number of holders of c.mu in shared mode (RLock)

vars == <<cache, config, now, lastOp, invoked, stored, calls, nOps, pc, loc, readers>>
procVars == <<pc, loc, readers>>

Procs == 1..NumProcs
NoLocals ==
    [key |-> "", value |-> NIL, tmp |-> 0, then |-> "return", arg |-> NIL, keys |-> {},
     m |-> NoHandle, batch |-> <<>>, values |-> <<>>]

NoCalls == [sets |-> 0, gets |-> 0, removed |-> 0]
NoOp == [name |-> "New", key |-> "", ret |-> NIL]

\* The state after New, for a Config among confs.
InitWith(confs) ==
    /\ config \in confs
    /\ cache = New(config)
    /\ now = 1
    /\ lastOp = NoOp
    /\ invoked = EmptyBag
    /\ stored = [k \in Keys |-> None]
    /\ calls = NoCalls
    /\ nOps = 0
    /\ pc = [p \in Procs |-> "idle"]
    /\ loc = [p \in Procs |-> NoLocals]
    /\ readers = 0

Init ==
    InitWith([ttl : {DefaultTTL}, enableMetrics : BOOLEAN,
              cleanupInterval : {DefaultCleanupInterval}])

\* Number of keys a call took out of items.
Removed(c, c2) == Cardinality(DOMAIN c.items \ DOMAIN c2.items)

\* A public operation returns: the cache after it and its result.
Returns(name, key, ret, c2) ==
    /\ nOps < MaxOps
    /\ nOps' = nOps + 1
    /\ cache' = c2
    /\ lastOp' = [name |-> name, key |-> key, ret |-> ret]
    /\ UNCHANGED <<config, invoked, procVars>>

SetWithTTL(key, value, ttl) ==
    /\ Returns("Set", key, NIL, set(cache, key, value, ttl, now))
    /\ stored' = [stored EXCEPT ![key] =
                     [value |-> value, ttl |-> ttl, at |-> now, known |-> TRUE, swept |-> FALSE]]
    /\ calls' = [calls EXCEPT !.sets = @ + 1]
    /\ UNCHANGED now

\* Cache.Set: the TTL is the Config's.
Set(key, value) == SetWithTTL(key, value, config.ttl)

\* Cache.SetGet; the clock may move between the set and the get.
SetGet(key, value, t2) ==
    LET ttl == config.ttl
        r == SetGetWithTTL(cache, key, value, ttl, now, t2)
    IN  /\ Returns("SetGet", key, r.value, r.c)
        /\ stored' = [stored EXCEPT ![key] =
                         [value |-> value, ttl |-> ttl, at |-> now, known |-> TRUE, swept |-> FALSE]]
        /\ calls' = [calls EXCEPT !.sets = @ + 1, !.gets = @ + 1]
        /\ now' = t2

\* Cache.GetSet: the TTL is the Config's.
GetSet(key, value) ==
    LET ttl == config.ttl
        r == GetSetWithTTL(cache, key, value, ttl, now)
    IN  /\ Returns("GetSet", key, r.value, r.c)
        /\ stored' = [stored EXCEPT ![key] =
                         [value |-> value, ttl |-> ttl, at |-> now, known |-> TRUE, swept |-> FALSE]]
        /\ calls' = [calls EXCEPT !.sets = @ + 1, !.gets = @ + 1]
        /\ UNCHANGED now

Get(key) ==
    LET r == get(cache, key, now)
    IN  /\ Returns("Get", key, r.value, r.c)
        /\ calls' = [calls EXCEPT !.gets = @ + 1]
        /\ UNCHANGED <<stored, now>>

GetDeleteOp(key) ==
    LET r == GetDelete(cache, key, now)
    IN  /\ Returns("GetDelete", key, r.value, r.c)
        /\ stored' = IF r.value # NIL THEN [stored EXCEPT ![key] = None] ELSE stored
        /\ calls' = [calls EXCEPT !.gets = @ + 1, !.removed = @ + Removed(cache, r.c)]
        /\ UNCHANGED now

DeleteOp(key) ==
    LET c2 == Delete(cache, key)
    IN  /\ Returns("Delete", key, NIL, c2)
        /\ stored' = [stored EXCEPT ![key] = None]
        /\ calls' = [calls EXCEPT !.removed = @ + Removed(cache, c2)]
        /\ UNCHANGED now

DeleteAllOp ==
    /\ Returns("DeleteAll", "", NIL, DeleteAll(cache))
    /\ stored' = [k \in Keys |-> None]
    /\ UNCHANGED <<calls, now>>

DeleteExpiredOp ==
    LET c2 == DeleteExpired(cache, now)
    IN  /\ Returns("DeleteExpired", "", NIL, c2)
        /\ calls' = [calls EXCEPT !.removed = @ + Removed(cache, c2)]
        /\ stored' = [k \in Keys |->
                         IF k \in expiredKeys(cache, now)
                         THEN [stored[k] EXCEPT !.swept = TRUE]
                         ELSE stored[k]]
        /\ UNCHANGED now

ResetMetricsOp ==
    /\ Returns("ResetMetrics", "", NIL, ResetMetrics(cache))
    /\ calls' = NoCalls
    /\ UNCHANGED <<stored, now>>

\* Cache.OnEviction(fn).
OnEviction(fn) ==
    /\ cache.eventHandlers.onEviction # fn
    /\ cache' = OnEvictionReg(cache, fn)
    /\ UNCHANGED <<config, now, lastOp, invoked, stored, calls, nOps, procVars>>

\* Cache.OnInsertion(fn).
OnInsertion(fn) ==
    /\ cache.eventHandlers.onInsertion # fn
    /\ cache' = OnInsertionReg(cache, fn)
    /\ UNCHANGED <<config, now, lastOp, invoked, stored, calls, nOps, procVars>>

\* A spawned callback goroutine runs.
RunCallback ==
    \E task \in BagToSet(cache.goroutines) :
        /\ cache' = Finish(cache, task)
        /\ invoked' = invoked (+) SetToBag({task})
        /\ UNCHANGED <<config, now, lastOp, stored, calls, nOps, procVars>>

\* Time passes.
Tick ==
    /\ now < MaxTime
    /\ now' = now + 1
    /\ UNCHANGED <<cache, config, lastOp, invoked, stored, calls, nOps, procVars>>

Next ==
    \/ \E key \in Keys, value \in Values : Set(key, value)
    \/ \E key \in Keys, value \in Values, ttl \in TTLs : SetWithTTL(key, value, ttl)
    \/ \E key \in Keys, value \in Values, t2 \in now..MaxTime : SetGet(key, value, t2)
    \/ \E key \in Keys, value \in Values : GetSet(key, value)
    \/ \E key \in Keys : Get(key)
    \/ \E key \in Keys : GetDeleteOp(key)
    \/ \E key \in Keys : DeleteOp(key)
    \/ DeleteAllOp
    \/ DeleteExpiredOp
    \/ ResetMetricsOp
    \/ Tick

Spec == Init /\ [][Next]_vars

\* New() with the default Config: no metrics.
InitDefault == Init /\ ~config.enableMetrics

\* The operations that insert and evict, with callbacks registered and run.
NextE ==
    \/ \E fn \in Callbacks : OnEviction(fn)
    \/ \E fn \in Callbacks : OnInsertion(fn)
    \/ RunCallback
    \/ \E key \in Keys, value \in Values, ttl \in TTLs : SetWithTTL(key, value, ttl)
    \/ \E key \in Keys : GetDeleteOp(key)
    \/ \E key \in Keys : DeleteOp(key)
    \/ DeleteAllOp
    \/ DeleteExpiredOp
    \/ Tick

SpecE == InitDefault /\ [][NextE]_vars

\* ------------------------------------------------- the cleaner and Close
\* New with WithCleanupInterval(0) or with the default interval; no metrics.
InitK ==
    InitWith([ttl : {DefaultTTL}, enableMetrics : {FALSE},
              cleanupInterval : {0, DefaultCleanupInterval}])

\* The cleaner's loop takes case <-ticker.C and starts ed.DeleteExpired():
\* Lock, collect the keys that are due, Unlock.  When the ticker fires is
\* left open: any instant.
CleanerTick ==
    /\ cache.cleaner.pc = "select"
    /\ readers = 0
    /\ cache' = [cache EXCEPT !.cleaner.keys = expiredKeys(cache, now),
                              !.cleaner.pc = "sweep"]
    /\ UNCHANGED <<config, now, lastOp, invoked, stored, calls, nOps, procVars>>

\* The rest of that DeleteExpired: c.evict(key) for one more of the collected
\* keys, each under a Lock of its own; after the last one the loop is back
\* at its select.
CleanerEvict ==
    /\ cache.cleaner.pc = "sweep"
    /\ readers = 0
    /\ \/ /\ cache.cleaner.keys = {}
          /\ cache' = [cache EXCEPT !.cleaner.pc = "select"]
       \/ \E key \in cache.cleaner.keys :
             cache' = [evict(cache, key) EXCEPT !.cleaner.keys = @ \ {key}]
    /\ UNCHANGED <<config, now, lastOp, invoked, stored, calls, nOps, procVars>>

\* Where a goroutine inside Close is: about to signal the cleaner, or in
\* c.eventHandlers.Wait(); the re- places are those of a Close called after
\* an earlier Close, of this goroutine or another, returned.
AtSignal == {"close_signal", "reclose_signal"}
AtWait == {"close_wait", "reclose_wait"}

\* A Close has returned.
Closed == \E p \in Procs : pc[p] \in {"closed", "reclose_signal", "reclose_wait"}
\* A Close has been called.
CloseCalled == \E p \in Procs : pc[p] # "idle"

\* Cache.Close is called by goroutine p: the test c.cleaner != nil.
CloseStart(p) ==
    /\ pc[p] \in {"idle", "closed"}
    /\ pc' = [pc EXCEPT ![p] =
                 IF ~Closed
                 THEN (IF cache.cleaner.nil THEN "close_wait" ELSE "close_signal")
                 ELSE (IF cache.cleaner.nil THEN "reclose_wait" ELSE "reclose_signal")]
    /\ UNCHANGED <<cache, config, now, lastOp, invoked, stored, calls, nOps, loc, readers>>

\* c.cleaner.close(): the signal on closeCh, an unbuffered channel; it is
\* handed over when the loop is at its select, and the loop then returns.
CleanerClose(p) ==
    /\ pc[p] \in AtSignal
    /\ cache.cleaner.pc = "select"
    /\ cache' = [cache EXCEPT !.cleaner = exitLoop(@)]
    /\ pc' = [pc EXCEPT ![p] = IF pc[p] = "close_signal" THEN "close_wait" ELSE "reclose_wait"]
    /\ UNCHANGED <<config, now, lastOp, invoked, stored, calls, nOps, loc, readers>>

\* A variant of CloseWait in which Close also lets go of the stored data;
\* C29 tells the two apart.
CloseWait_Destroys(p) ==
    /\ pc[p] \in AtWait
    /\ cache.eventHandlers.wg = 0
    /\ pc' = [pc EXCEPT ![p] = "closed"]
    /\ lastOp' = [name |-> "Close", key |-> "", ret |-> NIL]
    /\ cache' = [cache EXCEPT !.items = EmptyMap,
                              !.expirationsQueue = [k \in {} |-> ZeroTime]]
    /\ UNCHANGED <<config, now, invoked, stored, calls, nOps, loc, readers>>

\* c.eventHandlers.Wait() returns, the WaitGroup's counter being 0, and so
\* does Close.
CloseWait(p) ==
    /\ pc[p] \in AtWait
    /\ cache.eventHandlers.wg = 0
    /\ pc' = [pc EXCEPT ![p] = "closed"]
    /\ lastOp' = [name |-> "Close", key |-> "", ret |-> NIL]
    /\ UNCHANGED <<cache, config, now, invoked, stored, calls, nOps, loc, readers>>

NextK ==
    \/ \E key \in Keys, ttl \in {0, 1} : SetWithTTL(key, "v1", ttl)
    \/ \E key \in Keys : DeleteOp(key)
    \/ DeleteAllOp
    \/ DeleteExpiredOp
    \/ \E fn \in Callbacks : OnEviction(fn)
    \/ \E fn \in Callbacks : OnInsertion(fn)
    \/ RunCallback
    \/ CleanerTick
    \/ CleanerEvict
    \/ \E p \in Procs : CloseStart(p)
    \/ \E p \in Procs : CleanerClose(p)
    \/ \E p \in Procs : CloseWait(p)
    \/ Tick

SpecK == InitK /\ [][NextK]_vars

\* The cleaner left to do the sweeping: callers set and DeleteAll, none calls
\* Delete or DeleteExpired.  The ticker keeps ticking and the scheduler runs
\* the cleaner's goroutine: a step of the cleaner that stays possible is
\* taken in the end.
NextF ==
    \/ \E key \in Keys, ttl \in {0, 1} : SetWithTTL(key, "v1", ttl)
    \/ DeleteAllOp
    \/ CleanerTick
    \/ CleanerEvict
    \/ \E p \in Procs : CloseStart(p)
    \/ \E p \in Procs : CleanerClose(p)
    \/ \E p \in Procs : CloseWait(p)
    \/ Tick

SpecKF ==
    /\ InitK
    /\ [][NextF]_vars
    /\ WF_vars(CleanerTick)
    /\ WF_vars(CleanerEvict)

\* ------------------------------------------------- concurrent callers
\* c.mu is a sync.RWMutex.  A critical section under Lock() excludes every
\* other holder, so it is one step, taken when nobody holds the lock shared;
\* a critical section under RLock() runs together with other readers, so the
\* unsynchronised statements inside it are steps of their own.
CanLock == readers = 0

\* A goroutine starts a call.
Starts(p) ==
    /\ pc[p] = "idle"
    /\ nOps < MaxCalls
    /\ nOps' = nOps + 1

\* Cache.set from goroutine p: Lock, the critical section, Unlock.
SetC(p, key, value, ttl) ==
    /\ Starts(p)
    /\ CanLock
    /\ cache' = set(cache, key, value, ttl, now)
    /\ calls' = [calls EXCEPT !.sets = @ + 1]
    /\ UNCHANGED <<config, now, lastOp, invoked, stored, procVars>>

\* The start of Cache.get in goroutine p: RLock, read c.items[key], decide hit
\* or miss.  `then` is what the caller of get does with the value.
EnterGet(p, key, then, arg) ==
    /\ readers' = readers + 1
    /\ loc' = [loc EXCEPT ![p] = [key |-> key, value |-> getValue(cache, key, now),
                                  tmp |-> 0, then |-> then, arg |-> arg, keys |-> {},
                                  m |-> loc[p].m, batch |-> <<>>, values |-> <<>>]]
    /\ pc' = [pc EXCEPT ![p] = "get_load"]
    /\ calls' = [calls EXCEPT !.gets = @ + 1]
    /\ UNCHANGED <<cache, config, now, lastOp, invoked, stored>>

\* Cache.Get from goroutine p.
GetC(p, key) == Starts(p) /\ EnterGet(p, key, "return", NIL)

\* m.hits += 1 / m.misses += 1, first half: the counter is read.
GetLoad(p) ==
    /\ pc[p] = "get_load"
    /\ loc' = [loc EXCEPT ![p].tmp =
                  IF loc[p].value = NIL THEN cache.metrics.misses ELSE cache.metrics.hits]
    /\ pc' = [pc EXCEPT ![p] = "get_store"]
    /\ UNCHANGED <<cache, config, now, lastOp, invoked, stored, calls, nOps, readers>>

\* Where the caller of get goes on once get has returned: GetSet to its
\* c.set, GetDelete to c.evict if the value is not nil, the others return.
AfterGet(p) ==
    IF loc[p].then = "set" THEN "getset_set"
    ELSE IF loc[p].then = "evict" /\ loc[p].value # NIL THEN "delete_evict"
    ELSE "idle"

\* A variant of GetStore in which a compound operation keeps the read lock
\* of its get until its second half.
GetStore_KeepsLock(p) ==
    /\ pc[p] = "get_store"
    /\ cache' = IF cache.metrics.kind # "realMetrics" THEN cache
                ELSE IF loc[p].value = NIL
                THEN [cache EXCEPT !.metrics.misses = loc[p].tmp + 1]
                ELSE [cache EXCEPT !.metrics.hits = loc[p].tmp + 1]
    /\ readers' = IF AfterGet(p) = "idle" THEN readers - 1 ELSE readers
    /\ pc' = [pc EXCEPT ![p] = AfterGet(p)]
    /\ UNCHANGED <<config, now, lastOp, invoked, stored, calls, nOps, loc>>

\* Second half: the counter is written (a noMetrics does nothing); then the
\* deferred RUnlock, and get returns loc[p].value to its caller.
GetStore(p) ==
    /\ pc[p] = "get_store"
    /\ cache' = IF cache.metrics.kind # "realMetrics" THEN cache
                ELSE IF loc[p].value = NIL
                THEN [cache EXCEPT !.metrics.misses = loc[p].tmp + 1]
                ELSE [cache EXCEPT !.metrics.hits = loc[p].tmp + 1]
    /\ readers' = readers - 1
    /\ pc' = [pc EXCEPT ![p] = AfterGet(p)]
    /\ UNCHANGED <<config, now, lastOp, invoked, stored, calls, nOps, loc>>

\* Cache.SetGet from goroutine p, its first half: c.set(key, value, ttl).
SetGetC(p, key, value) ==
    /\ Starts(p)
    /\ CanLock
    /\ cache' = set(cache, key, value, config.ttl, now)
    /\ calls' = [calls EXCEPT !.sets = @ + 1]
    /\ pc' = [pc EXCEPT ![p] = "setget_get"]
    /\ loc' = [loc EXCEPT ![p] = [NoLocals EXCEPT !.key = key]]
    /\ UNCHANGED <<config, now, lastOp, invoked, stored, readers>>

\* Cache.SetGet, its second half: v := c.get(key).
SetGetGet(p) ==
    /\ pc[p] = "setget_get"
    /\ EnterGet(p, loc[p].key, "return", NIL)
    /\ UNCHANGED nOps

\* Cache.GetSet from goroutine p, its first half: v := c.get(key).
GetSetC(p, key, value) == Starts(p) /\ EnterGet(p, key, "set", value)

\* Cache.GetSet, its second half: c.set(key, value, ttl).
GetSetSet(p) ==
    /\ pc[p] = "getset_set"
    /\ CanLock
    /\ cache' = set(cache, loc[p].key, loc[p].arg, config.ttl, now)
    /\ calls' = [calls EXCEPT !.sets = @ + 1]
    /\ pc' = [pc EXCEPT ![p] = "idle"]
    /\ UNCHANGED <<config, now, lastOp, invoked, stored, nOps, loc, readers>>

\* Cache.Delete from goroutine p, first critical section: is key in items?
DeleteCheck(p, key) ==
    /\ Starts(p)
    /\ CanLock
    /\ IF key \in DOMAIN cache.items
       THEN /\ pc' = [pc EXCEPT ![p] = "delete_evict"]
            /\ loc' = [loc EXCEPT ![p] = [NoLocals EXCEPT !.key = key]]
       ELSE UNCHANGED <<pc, loc>>
    /\ UNCHANGED <<cache, config, now, lastOp, invoked, stored, calls, readers>>

\* Cache.Delete, second critical section: c.evict(key).
DeleteEvict(p) ==
    /\ pc[p] = "delete_evict"
    /\ CanLock
    /\ cache' = evict(cache, loc[p].key)
    /\ calls' = [calls EXCEPT !.removed = @ + Removed(cache, cache')]
    /\ pc' = [pc EXCEPT ![p] = "idle"]
    /\ UNCHANGED <<config, now, lastOp, invoked, stored, nOps, loc, readers>>

\* Cache.ResetMetrics from goroutine p.
ResetMetricsC(p) ==
    /\ Starts(p)
    /\ CanLock
    /\ cache' = ResetMetrics(cache)
    /\ calls' = NoCalls
    /\ UNCHANGED <<config, now, lastOp, invoked, stored, procVars>>

\* Cache.GetDelete from goroutine p, its first half: value := c.get(key).
\* Its second half, c.evict(key), is DeleteEvict.
GetDeleteC(p, key) == Starts(p) /\ EnterGet(p, key, "evict", NIL)

NextC ==
    \/ \E p \in Procs, key \in Keys, ttl \in {0, 1} : SetC(p, key, "v1", ttl)
    \/ \E p \in Procs, key \in Keys : GetC(p, key)
    \/ \E p \in Procs : GetLoad(p)
    \/ \E p \in Procs : GetStore(p)
    \/ \E p \in Procs, key \in Keys : SetGetC(p, key, "v2")
    \/ \E p \in Procs : SetGetGet(p)
    \/ \E p \in Procs, key \in Keys : GetSetC(p, key, "v2")
    \/ \E p \in Procs : GetSetSet(p)
    \/ \E p \in Procs, key \in Keys : DeleteCheck(p, key)
    \/ \E p \in Procs : DeleteEvict(p)
    \/ \E p \in Procs : ResetMetricsC(p)
    \/ Tick

SpecC == Init /\ [][NextC]_vars

\* The compound operations SetGet, GetSet and GetDelete next to a
\* concurrent Set of either value.
NextN ==
    \/ \E p \in Procs, key \in Keys, value \in {"v1", "v2"} : SetC(p, key, value, 0)
    \/ \E p \in Procs, key \in Keys : SetGetC(p, key, "v2")
    \/ \E p \in Procs : SetGetGet(p)
    \/ \E p \in Procs, key \in Keys : GetSetC(p, key, "v2")
    \/ \E p \in Procs : GetSetSet(p)
    \/ \E p \in Procs, key \in Keys : GetDeleteC(p, key)
    \/ \E p \in Procs : DeleteEvict(p)
    \/ \E p \in Procs : GetLoad(p)
    \/ \E p \in Procs : GetStore(p)

SpecN == InitDefault /\ [][NextN]_vars

\* Every call made has returned.
AllReturned == \A p \in Procs : pc[p] = "idle"

\* ------------------------------------------------- the store lock, c.mu
\* Every Lock/RLock and Unlock/RUnlock of c.mu is a step here.  readers is
\* -1 while c.mu is held by Lock(), else the number of RLock() holders.
\* A goroutine is a caller, the cleaner in its DeleteExpired, or a callback;
\* pc[p] is "want" before the Lock/RLock of the section loc[p].then and "in"
\* inside it.  The sections are the critical sections of the methods.
Methods ==
    {"Set", "Get", "GetDelete", "Delete", "DeleteAll", "DeleteExpired",
     "Keys", "Len", "Has"}

\* The first critical section of a public method.
FirstSection(method) ==
    CASE method = "Set" -> "set"
      [] method = "Get" -> "get"
      [] method = "GetDelete" -> "get"
      [] method = "Delete" -> "delete_check"
      [] method = "DeleteAll" -> "deleteAll"
      [] method = "DeleteExpired" -> "collect"
      [] method = "Keys" -> "keys"
      [] method = "Len" -> "len"
      [] method = "Has" -> "has"

\* A variant of LockMode in which evict takes the lock shared; C17 tells the
\* two apart.
LockMode_EvictShared(sec) ==
    IF sec \in {"get", "len", "has", "evict"} THEN "RLock" ELSE "Lock"

\* How a critical section takes c.mu.
LockMode(sec) ==
    IF sec \in {"get", "len", "has"} THEN "RLock" ELSE "Lock"

Inside(p) == pc[p] = "in"

\* Goroutine p calls a public method.
Call(p, method, key, ttl) ==
    /\ Starts(p)
    /\ pc' = [pc EXCEPT ![p] = "want"]
    /\ loc' = [loc EXCEPT ![p] = [NoLocals EXCEPT !.key = key, !.tmp = ttl,
                                                  !.then = FirstSection(method),
                                                  !.arg = method]]
    /\ UNCHANGED <<cache, config, now, lastOp, invoked, stored, calls, readers>>

\* c.mu.Lock() or c.mu.RLock() of the section p is about to enter.
Acquire(p) ==
    /\ pc[p] = "want"
    /\ \/ /\ LockMode(loc[p].then) = "Lock"
          /\ readers = 0
          /\ readers' = -1
       \/ /\ LockMode(loc[p].then) = "RLock"
          /\ readers >= 0
          /\ readers' = readers + 1
    /\ pc' = [pc EXCEPT ![p] = "in"]
    /\ UNCHANGED <<cache, config, now, lastOp, invoked, stored, calls, nOps, loc>>

\* A variant of SectionEffect whose evict, once it holds the lock, checks
\* again that the key is still due and leaves a key that is not.
SectionEffect_Revalidates(p) ==
    LET sec == loc[p].then
        key == loc[p].key
    IN  CASE sec = "set" -> set(cache, key, "v1", loc[p].tmp, now)
          [] sec = "get" -> get(cache, key, now).c
          [] sec = "evict" -> IF key \in expiredKeys(cache, now)
                              THEN evict(cache, key) ELSE cache
          [] sec = "deleteAll" -> DeleteAll(cache)
          [] OTHER -> cache

\* The cache after the critical section p is in.
SectionEffect(p) ==
    LET sec == loc[p].then
        key == loc[p].key
    IN  CASE sec = "set" -> set(cache, key, "v1", loc[p].tmp, now)
          [] sec = "get" -> get(cache, key, now).c
          [] sec = "evict" -> evict(cache, key)
          [] sec = "deleteAll" -> DeleteAll(cache)
          [] OTHER -> cache

\* What p does after the critical section it is in: the locals it goes on
\* with and the next section, "return" when the method is over.
AfterSection(p, due) ==
    LET l == loc[p]
        sec == l.then
    IN  CASE sec = "get" /\ l.arg = "GetDelete" /\ getValue(cache, l.key, now) # NIL ->
                 {[l EXCEPT !.then = "evict"]}
          [] sec = "delete_check" /\ Has(cache, l.key) ->
                 {[l EXCEPT !.then = "evict"]}
          [] sec = "collect" /\ due # {} ->
                 {[l EXCEPT !.then = "evict", !.key = k, !.keys = due \ {k}] : k \in due}
          [] sec = "evict" /\ l.keys # {} ->
                 {[l EXCEPT !.key = k, !.keys = l.keys \ {k}] : k \in l.keys}
          [] OTHER -> {[l EXCEPT !.then = "return"]}

\* A variant of Unlocked in which Delete defers its Unlock to its return, so
\* that its evict finds c.mu held; C16 tells the two apart.
Unlocked_DeleteDefers(p) ==
    IF loc[p].then = "delete_check" THEN readers
    ELSE IF readers = -1 THEN 0 ELSE readers - 1

\* A variant of Unlocked in which set and evict call fn themselves, inside
\* the section, and so keep c.mu until fn returns; C28 tells the two apart.
Unlocked_AfterCallback(p) ==
    IF /\ loc[p].then \in {"set", "evict"}
       /\ SectionEffect(p).goroutines # cache.goroutines
    THEN readers
    ELSE IF readers = -1 THEN 0 ELSE readers - 1

\* c.mu after the Unlock or RUnlock that ends the section p is in.
Unlocked(p) ==
    IF readers = -1 THEN 0 ELSE readers - 1

\* The critical section p is in, and its Unlock or RUnlock.
Release(p) ==
    /\ pc[p] = "in"
    /\ cache' = SectionEffect(p)
    /\ readers' = Unlocked(p)
    /\ \E l \in AfterSection(p, expiredKeys(cache, now)) :
          /\ loc' = [loc EXCEPT ![p] = l]
          /\ pc' = [pc EXCEPT ![p] = IF l.then = "return" THEN "idle" ELSE "want"]
    /\ UNCHANGED <<config, now, lastOp, invoked, stored, calls, nOps>>

\* A callback goroutine whose fn calls a method of the store, c.Len(): it
\* needs c.mu shared for a moment, then ends with wg.Done().
RunCallbackLen ==
    /\ readers >= 0
    /\ RunCallback

\* The store with OnInsertion(fn) and OnEviction(fn) registered, before the
\* goroutines start.
InitM ==
    /\ config \in [ttl : {DefaultTTL}, enableMetrics : {FALSE},
                    cleanupInterval : {DefaultCleanupInterval}]
    /\ \E fn \in Callbacks : cache = OnEvictionReg(OnInsertionReg(New(config), fn), fn)
    /\ now = 1
    /\ lastOp = NoOp
    /\ invoked = EmptyBag
    /\ stored = [k \in Keys |-> None]
    /\ calls = NoCalls
    /\ nOps = 0
    /\ pc = [p \in Procs |-> "idle"]
    /\ loc = [p \in Procs |-> NoLocals]
    /\ readers = 0

NextM ==
    \/ \E p \in Procs, method \in Methods, key \in Keys : Call(p, method, key, 1)
    \/ \E p \in Procs : Acquire(p)
    \/ \E p \in Procs : Release(p)
    \/ RunCallbackLen
    \/ Tick

\* Concurrent callers and callbacks under a fair scheduler and Go's RWMutex,
\* which lets no waiting Lock or RLock starve: a goroutine that can take the
\* lock again and again gets it, one inside a section leaves it, a callback
\* that can run does.
SpecM ==
    /\ InitM /\ [][NextM]_vars
    /\ \A p \in Procs : SF_vars(Acquire(p)) /\ WF_vars(Release(p))
    /\ WF_vars(RunCallbackLen)

\* The same with callbacks that may never return: the callers' goroutines
\* are scheduled and served by the lock, and nothing is said of when, or
\* whether, a callback goroutine goes on.
SpecMB ==
    /\ InitM /\ [][NextM]_vars
    /\ \A p \in Procs : SF_vars(Acquire(p)) /\ WF_vars(Release(p))

\* ------------------------------------- one caller, metrics and callbacks
\* New() or New(WithMetrics()), then either no registration or OnInsertion(fn)
\* and OnEviction(fn), before the caller's first operation.
InitS ==
    /\ config \in [ttl : {DefaultTTL}, enableMetrics : BOOLEAN,
                    cleanupInterval : {DefaultCleanupInterval}]
    /\ \E fn \in Callbacks \cup {"default"} :
          cache = OnEvictionReg(OnInsertionReg(New(config), fn), fn)
    /\ now = 1
    /\ lastOp = NoOp
    /\ invoked = EmptyBag
    /\ stored = [k \in Keys |-> None]
    /\ calls = NoCalls
    /\ nOps = 0
    /\ pc = [p \in Procs |-> "idle"]
    /\ loc = [p \in Procs |-> NoLocals]
    /\ readers = 0

\* The lists of keys a caller hands to GetMultiple.
KeyLists == UNION {[1..n -> Keys] : n \in 0..MaxBatch}

\* values := c.GetMultiple(keys) in the caller.
GetMultipleOp(keys) ==
    LET r == GetMultiple(cache, keys, now)
    IN  /\ nOps < MaxOps
        /\ nOps' = nOps + 1
        /\ cache' = r.c
        /\ lastOp' = [name |-> "GetMultiple", key |-> "", ret |-> NIL]
        /\ loc' = [loc EXCEPT ![1].batch = keys, ![1].values = r.values]
        /\ calls' = [calls EXCEPT !.gets = @ + Len(keys)]
        /\ UNCHANGED <<config, now, invoked, stored, pc, readers>>

\* m := c.Metrics() in the caller, once.
MetricsOp ==
    /\ loc[1].m.kind = "nil"
    /\ loc' = [loc EXCEPT ![1].m = Metrics(cache, nOps)]
    /\ UNCHANGED <<cache, config, now, lastOp, invoked, stored, calls, nOps, pc, readers>>

NextS ==
    \/ \E key \in Keys, value \in Values \ {NIL}, ttl \in {0, 1} :
          SetWithTTL(key, value, ttl)
    \/ \E key \in Keys : Get(key)
    \/ \E keys \in KeyLists : GetMultipleOp(keys)
    \/ \E key \in Keys : GetDeleteOp(key)
    \/ \E key \in Keys : DeleteOp(key)
    \/ DeleteAllOp
    \/ DeleteExpiredOp
    \/ ResetMetricsOp
    \/ MetricsOp
    \/ Tick

SpecS == InitS /\ [][NextS]_vars

\* ------------------------------------------ registrations and callbacks
\* The functions a caller registers.
Handlers == {"f", "g"}

\* One caller registers and re-registers callbacks, sets and deletes; the
\* callback goroutines run.  Nothing expires: the TTL is 0.
NextR ==
    \/ \E fn \in Handlers : OnInsertion(fn)
    \/ \E fn \in Handlers : OnEviction(fn)
    \/ \E key \in Keys, value \in Values \ {NIL} : SetWithTTL(key, value, 0)
    \/ \E key \in Keys : DeleteOp(key)
    \/ RunCallback

\* The scheduler runs every goroutine: a callback goroutine that was
\* started runs in the end.
SpecR == InitDefault /\ [][NextR]_vars /\ WF_vars(RunCallback)

\* ------------------------- set and evict step by step, and registration
\* What Cache.set does after it has dispatched the insertion callback: the
\* item is written, indexed if it can expire, and counted.
setStore(c, key, value, ttl, t) ==
    LET item == newItem(value, ttl, t)
        c2 == [c EXCEPT !.items = MapPut(@, key, item)]
        c3 == IF CanExpire(item)
              THEN [c2 EXCEPT !.expirationsQueue = MapPut(@, key, item.ExpiresAt)]
              ELSE c2
    IN  [c3 EXCEPT !.metrics = incrementInsertions(@)]

\* A variant of CanRLock that lets a reader in whatever the state of c.mu.
CanRLock_Always == TRUE

\* c.mu.RLock() returns at once: no goroutine holds c.mu exclusively.
CanRLock == readers >= 0

\* Cache.set in goroutine p: c.mu.Lock().
SetLock(p, key, value) ==
    /\ Starts(p)
    /\ CanLock
    /\ readers' = -1
    /\ pc' = [pc EXCEPT ![p] = "set_dispatch"]
    /\ loc' = [loc EXCEPT ![p] = [NoLocals EXCEPT !.key = key, !.value = value,
                                                  !.arg = "Set"]]
    /\ UNCHANGED <<cache, config, now, lastOp, invoked, stored, calls>>

\* c.eventHandlers.onInsertion(key, value): the slot is read and the closure
\* in it called, which starts the callback goroutine.
SetDispatch(p) ==
    /\ pc[p] = "set_dispatch"
    /\ cache' = onInsertion(cache, loc[p].key, loc[p].value)
    /\ pc' = [pc EXCEPT ![p] = "set_store"]
    /\ UNCHANGED <<config, now, lastOp, invoked, stored, calls, nOps, loc, readers>>

\* The rest of Cache.set and its deferred Unlock.
SetStore(p) ==
    /\ pc[p] = "set_store"
    /\ cache' = setStore(cache, loc[p].key, loc[p].value, 0, now)
    /\ readers' = 0
    /\ pc' = [pc EXCEPT ![p] = "idle"]
    /\ calls' = [calls EXCEPT !.sets = @ + 1]
    /\ UNCHANGED <<config, now, lastOp, invoked, stored, nOps, loc>>

\* Cache.Delete in goroutine p, its first critical section: the key is
\* looked up under c.mu, which is released again.
DeleteLookup(p, key) ==
    /\ Starts(p)
    /\ CanLock
    /\ pc' = [pc EXCEPT ![p] = IF Has(cache, key) THEN "evict_want" ELSE "idle"]
    /\ loc' = [loc EXCEPT ![p] = [NoLocals EXCEPT !.key = key, !.arg = "Delete"]]
    /\ UNCHANGED <<cache, config, now, lastOp, invoked, stored, calls, readers>>

\* Cache.evict in goroutine p: c.mu.Lock().
EvictLock(p) ==
    /\ pc[p] = "evict_want"
    /\ CanLock
    /\ readers' = -1
    /\ pc' = [pc EXCEPT ![p] = "evict_in"]
    /\ UNCHANGED <<cache, config, now, lastOp, invoked, stored, calls, nOps, loc>>

\* The body of Cache.evict, which reads the eviction slot and calls the
\* closure in it, and its deferred Unlock.
EvictRun(p) ==
    /\ pc[p] = "evict_in"
    /\ cache' = evict(cache, loc[p].key)
    /\ readers' = 0
    /\ pc' = [pc EXCEPT ![p] = "idle"]
    /\ calls' = [calls EXCEPT !.removed = @ + Removed(cache, cache')]
    /\ UNCHANGED <<config, now, lastOp, invoked, stored, nOps, loc>>

\* Cache.OnInsertion(fn) or Cache.OnEviction(fn) is called in goroutine p:
\* the closure is built; no lock is taken.
RegisterCall(p, kind, fn) ==
    /\ Starts(p)
    /\ pc' = [pc EXCEPT ![p] = "reg_write"]
    /\ loc' = [loc EXCEPT ![p] = [NoLocals EXCEPT !.arg = kind, !.value = fn]]
    /\ UNCHANGED <<cache, config, now, lastOp, invoked, stored, calls, readers>>

\* c.onInsertion = func... or c.onEviction = func...: the slot is written,
\* whoever holds c.mu.
RegisterWrite(p) ==
    /\ pc[p] = "reg_write"
    /\ cache' = IF loc[p].arg = "insertion"
                THEN OnInsertionReg(cache, loc[p].value)
                ELSE OnEvictionReg(cache, loc[p].value)
    /\ pc' = [pc EXCEPT ![p] = "idle"]
    /\ UNCHANGED <<config, now, lastOp, invoked, stored, calls, nOps, loc, readers>>

\* A callback goroutine whose fn reads the store, c.Get(key): get needs c.mu
\* shared; then fn returns and the goroutine ends with wg.Done().
RunCallbackGet ==
    \E task \in BagToSet(cache.goroutines) :
        /\ CanRLock
        /\ cache' = Finish(get(cache, task.key, now).c, task)
        /\ lastOp' = [name |-> "Callback", key |-> task.key,
                      ret |-> getValue(cache, task.key, now)]
        /\ invoked' = invoked (+) SetToBag({task})
        /\ UNCHANGED <<config, now, stored, calls, nOps, procVars>>

NextG ==
    \/ \E p \in Procs, key \in Keys, value \in {"v1", "v2"} : SetLock(p, key, value)
    \/ \E p \in Procs : SetDispatch(p)
    \/ \E p \in Procs : SetStore(p)
    \/ \E p \in Procs, key \in Keys : DeleteLookup(p, key)
    \/ \E p \in Procs : EvictLock(p)
    \/ \E p \in Procs : EvictRun(p)
    \/ \E p \in Procs, kind \in {"insertion", "eviction"}, fn \in Handlers :
           RegisterCall(p, kind, fn)
    \/ \E p \in Procs : RegisterWrite(p)
    \/ RunCallbackGet

\* Concurrent callers of Set, Delete, OnInsertion and OnEviction, and the
\* callback goroutines, on a store that starts with both callbacks
\* registered.
SpecG == InitM /\ [][NextG]_vars

\* ------------------------------------ one caller, every public operation
\* New(WithMetrics()), then OnInsertion(fn) and OnEviction(fn).
InitV ==
    /\ config \in [ttl : {DefaultTTL}, enableMetrics : {TRUE},
                    cleanupInterval : {DefaultCleanupInterval}]
    /\ \E fn \in Callbacks : cache = OnEvictionReg(OnInsertionReg(New(config), fn), fn)
    /\ now = 1
    /\ lastOp = NoOp
    /\ invoked = EmptyBag
    /\ stored = [k \in Keys |-> None]
    /\ calls = NoCalls
    /\ nOps = 0
    /\ pc = [p \in Procs |-> "idle"]
    /\ loc = [p \in Procs |-> NoLocals]
    /\ readers = 0

\* Cache.Keys, Cache.Len and Cache.Has: they read under the lock and change
\* nothing; what they return is CacheKeys, CacheLen and Has of the cache.
KeysOp ==
    /\ Returns("Keys", "", NIL, cache)
    /\ UNCHANGED <<stored, calls, now>>

LenOp ==
    /\ Returns("Len", "", NIL, cache)
    /\ UNCHANGED <<stored, calls, now>>

HasOp(key) ==
    /\ Returns("Has", key, NIL, cache)
    /\ UNCHANGED <<stored, calls, now>>

NextV ==
    \/ \E key \in Keys, value \in {NIL, "v1"}, ttl \in {0, 1} : SetWithTTL(key, value, ttl)
    \/ \E key \in Keys : Get(key)
    \/ \E keys \in KeyLists : GetMultipleOp(keys)
    \/ \E key \in Keys : GetDeleteOp(key)
    \/ \E key \in Keys : DeleteOp(key)
    \/ DeleteAllOp
    \/ DeleteExpiredOp
    \/ KeysOp
    \/ LenOp
    \/ \E key \in Keys : HasOp(key)
    \/ Tick

SpecV == InitV /\ [][NextV]_vars

\* ------------------------------------------------------------ the claims
\* What the history says of key k: the set that stored it is still the last
\* operation on k (no overwrite, delete, getDelete or deleteAll since).
Stored(k) == stored[k].known
\* The instant the item last set for k expires at, for a ttl > 0.
StoredExpiresAt(k) == stored[k].at + stored[k].ttl
\* Every operation so far was a Set or a SetWithTTL.
OnlySets == calls.sets = nOps /\ calls.gets = 0

\* C1: after set(k, v, ttl) with v non-nil and no other operation on k in
\* between (no overwrite, no delete, no sweep that took k), get(k) returns v
\* as long as ttl <= 0 or now <= expiresAt; and a SetGet(k, v) returns v
\* under the same condition.
C1_SetThenGet ==
    /\ \A k \in Keys :
          (/\ Stored(k) /\ ~stored[k].swept /\ stored[k].value # NIL
           /\ (stored[k].ttl <= 0 \/ now <= StoredExpiresAt(k)))
          => get(cache, k, now).value = stored[k].value
    /\ (/\ lastOp.name = "SetGet"
        /\ stored[lastOp.key].value # NIL
        /\ (stored[lastOp.key].ttl <= 0 \/ now <= StoredExpiresAt(lastOp.key)))
       => lastOp.ret = stored[lastOp.key].value

\* C1 witness: a Get at the very instant now = expiresAt returned the value
\* set, after an overwrite of the key.
C1_Witness ==
    /\ lastOp.name = "Get"
    /\ Stored(lastOp.key)
    /\ stored[lastOp.key].ttl > 0
    /\ now = StoredExpiresAt(lastOp.key)
    /\ lastOp.ret = stored[lastOp.key].value
    /\ lastOp.ret = "v2"
    /\ Insertions(cache.metrics) >= 2

\* C2 as stated: for every item stored with ttl > 0, a get before ttl has
\* elapsed returns the stored value and adds one to hits; a get after more
\* than ttl has elapsed returns nil and adds one to misses, sweeps or not.
C2_AsStated ==
    \A k \in Keys :
        (Stored(k) /\ stored[k].ttl > 0) =>
            LET r == get(cache, k, now)
            IN  /\ now < StoredExpiresAt(k) =>
                      /\ r.value = stored[k].value
                      /\ Hits(r.c.metrics) = Hits(cache.metrics) + 1
                /\ now > StoredExpiresAt(k) =>
                      /\ r.value = NIL
                      /\ Misses(r.c.metrics) = Misses(cache.metrics) + 1

\* C2 amended: the same for a non-nil value and a cache built WithMetrics;
\* the other counters stay as they are.
C2_TTLHitThenMiss ==
    \A k \in Keys :
        (/\ Stored(k) /\ stored[k].ttl > 0 /\ stored[k].value # NIL
         /\ config.enableMetrics) =>
            LET r == get(cache, k, now)
            IN  /\ now < StoredExpiresAt(k) =>
                      /\ r.value = stored[k].value
                      /\ Hits(r.c.metrics) = Hits(cache.metrics) + 1
                      /\ Misses(r.c.metrics) = Misses(cache.metrics)
                /\ now > StoredExpiresAt(k) =>
                      /\ r.value = NIL
                      /\ Misses(r.c.metrics) = Misses(cache.metrics) + 1
                      /\ Hits(r.c.metrics) = Hits(cache.metrics)

\* C2 witness: a Get after more than ttl returned nil and counted a miss,
\* the item still being in items (no sweep ran).
C2_Witness ==
    /\ lastOp.name = "Get"
    /\ Stored(lastOp.key)
    /\ stored[lastOp.key].ttl > 0
    /\ stored[lastOp.key].value # NIL
    /\ now > StoredExpiresAt(lastOp.key)
    /\ lastOp.ret = NIL
    /\ lastOp.key \in DOMAIN cache.items
    /\ Misses(cache.metrics) = 1
    /\ Hits(cache.metrics) = 0

\* C3: an item stored with ttl <= 0 never reports expired and get(k) returns
\* its value after any elapsed time and any number of sweeps, until k is
\* overwritten or removed by delete/getDelete/deleteAll; also when the set
\* overwrote an item that had ttl > 0.
C3_NeverExpires ==
    \A k \in Keys :
        (Stored(k) /\ stored[k].ttl <= 0) =>
            /\ ~Expired(Lookup(cache.items, k), now)
            /\ get(cache, k, now).value = stored[k].value

C5_IndexMatchesItems ==
    OnlySets =>
        \A k \in Keys :
            /\ k \in DOMAIN cache.expirationsQueue
                  <=> (k \in DOMAIN cache.items /\ CanExpire(cache.items[k]))
            /\ k \in DOMAIN cache.expirationsQueue
                  => cache.expirationsQueue[k] = cache.items[k].ExpiresAt

\* C6: in every reachable state the keys of expirations are keys of items.
C6_IndexSubsetOfItems ==
    DOMAIN cache.expirationsQueue \subseteq DOMAIN cache.items

\* C7: with metrics enabled the evictions counter is the number of keys
\* delete, getDelete and deleteExpired took out of items since the last reset.
C7_EvictionsCountRemovals ==
    config.enableMetrics => Evictions(cache.metrics) = calls.removed

\* C8: with metrics enabled and concurrent callers no counter update is lost:
\* once all calls have returned, hits + misses is the number of gets made
\* since the last reset.
C8_NoLostUpdate ==
    (config.enableMetrics /\ AllReturned) =>
        Hits(cache.metrics) + Misses(cache.metrics) = calls.gets

\* C9: with metrics enabled the insertions counter is the number of set calls
\* performed since the last reset, overwrites included, under any
\* interleaving of concurrent callers.
C9_InsertionsCountSets ==
    config.enableMetrics => Insertions(cache.metrics) = calls.sets

\* C9 witness: two sets of one key were counted while another goroutine is
\* inside get's critical section.
C9_Witness ==
    /\ config.enableMetrics
    /\ Insertions(cache.metrics) = 2
    /\ Cardinality(DOMAIN cache.items) = 1
    /\ \E p \in Procs : pc[p] = "get_store"

\* C10: when an eviction callback is registered and an existing key k is
\* deleted (Delete, GetDelete or the sweep), exactly one callback goroutine is
\* dispatched for that deletion, with (k, the last value stored for k).
C10_EvictionCallbackGetsValue ==
    [][(/\ cache.eventHandlers.onEviction \in Callbacks
        /\ nOps' = nOps + 1
        /\ lastOp'.name \in {"Delete", "GetDelete", "DeleteExpired"})
       => \A k \in DOMAIN cache.items \ DOMAIN cache'.items :
             LET new == cache'.goroutines (-) cache.goroutines
                 task == [kind |-> "eviction", fn |-> cache.eventHandlers.onEviction,
                          key |-> k, arg |-> BoxValue(stored[k].value)]
             IN  /\ {t \in BagToSet(new) : t.key = k} = {task}
                 /\ CopiesIn(task, new) = 1]_vars

\* C18: run by one caller at a time, GetSet(k, v2) returns what get(k) would
\* have returned just before the call (nil when k had no live value), and
\* right after the call get(k) returns v2.
C18_GetSetReturnsOld ==
    [][(lastOp'.name = "GetSet" /\ nOps' = nOps + 1) =>
          LET k == lastOp'.key
          IN  /\ lastOp'.ret = get(cache, k, now).value
              /\ get(cache', k, now').value = stored'[k].value]_vars

\* C18 witness: a GetSet returned the old value "v1" and left "v2" readable.
C18_Witness ==
    /\ lastOp.name = "GetSet"
    /\ lastOp.ret = "v1"
    /\ stored[lastOp.key].value = "v2"
    /\ get(cache, lastOp.key, now).value = "v2"

\* C19 as stated: GetDelete(k) returns the current value of k (nil if none);
\* whenever k is in items it is evicted by the call, so that afterwards k is
\* in neither items nor expirations; when k is not in items the call leaves
\* both maps as they were.
C19_AsStated ==
    [][(lastOp'.name = "GetDelete" /\ nOps' = nOps + 1) =>
          LET k == lastOp'.key
          IN  /\ lastOp'.ret = get(cache, k, now).value
              /\ Has(cache, k) =>
                    /\ ~Has(cache', k)
                    /\ k \notin DOMAIN cache'.expirationsQueue
              /\ ~Has(cache, k) =>
                    /\ cache'.items = cache.items
                    /\ cache'.expirationsQueue = cache.expirationsQueue]_vars

\* C19 amended: the same with "k has a live value" (get(k) is not nil: the
\* item is in items, its value is not nil and it has not expired) in place of
\* "k is in items"; with no live value both maps stay as they were.
C19_GetDeleteLive ==
    [][(lastOp'.name = "GetDelete" /\ nOps' = nOps + 1) =>
          LET k == lastOp'.key
              live == get(cache, k, now).value # NIL
          IN  /\ lastOp'.ret = get(cache, k, now).value
              /\ live =>
                    /\ ~Has(cache', k)
                    /\ k \notin DOMAIN cache'.expirationsQueue
              /\ ~live =>
                    /\ cache'.items = cache.items
                    /\ cache'.expirationsQueue = cache.expirationsQueue]_vars

\* C19 witness: a GetDelete returned "v1" and took the key, which could
\* expire, out of both maps, the other key staying.
C19_Witness ==
    /\ lastOp.name = "GetDelete"
    /\ lastOp.ret = "v1"
    /\ ~Has(cache, lastOp.key)
    /\ lastOp.key \notin DOMAIN cache.expirationsQueue
    /\ CacheLen(cache) = 1
    /\ DOMAIN cache.expirationsQueue = DOMAIN cache.items

\* C20: Delete(k) of a key in items removes exactly that key: afterwards
\* Has(k) is false, Len is one less, k has no expirations entry, and every
\* other key keeps its item and its expirations entry.
C20_DeleteRemovesExactlyKey ==
    [][(lastOp'.name = "Delete" /\ nOps' = nOps + 1 /\ Has(cache, lastOp'.key)) =>
          LET k == lastOp'.key
          IN  /\ ~Has(cache', k)
              /\ CacheLen(cache') = CacheLen(cache) - 1
              /\ k \notin DOMAIN cache'.expirationsQueue
              /\ \A j \in Keys \ {k} :
                    /\ Has(cache', j) <=> Has(cache, j)
                    /\ Has(cache, j) => cache'.items[j] = cache.items[j]
                    /\ j \in DOMAIN cache'.expirationsQueue
                          <=> j \in DOMAIN cache.expirationsQueue
                    /\ j \in DOMAIN cache.expirationsQueue =>
                          cache'.expirationsQueue[j] = cache.expirationsQueue[j]]_vars

\* C20 witness: a Delete took one of two keys that could expire; the other
\* is still in both maps.
C20_Witness ==
    /\ lastOp.name = "Delete"
    /\ config.enableMetrics
    /\ Evictions(cache.metrics) = 1
    /\ Insertions(cache.metrics) = 2
    /\ CacheLen(cache) = 1
    /\ DOMAIN cache.expirationsQueue = DOMAIN cache.items
    /\ ~Has(cache, lastOp.key)

\* The maps of the store are the same in c and c2.
SameMaps(c, c2) ==
    c2.items = c.items /\ c2.expirationsQueue = c.expirationsQueue

\* C11: at the step by which a Close returns no callback goroutine is
\* outstanding: every callback dispatched before, and so every one dispatched
\* by an operation that completed before Close was called, has run to its end.
C11_CloseWaitsForCallbacks ==
    [][(\E p \in Procs : pc[p] \in AtWait /\ pc'[p] = "closed") =>
          /\ cache.goroutines = EmptyBag
          /\ cache'.goroutines = EmptyBag]_vars

\* C11 witness: a Close returned after an insertion and an eviction callback
\* ran, on a cache with a cleaner.
C11_Witness ==
    /\ lastOp.name = "Close"
    /\ ~cache.cleaner.nil
    /\ \E t \in BagToSet(invoked) : t.kind = "insertion"
    /\ \E t \in BagToSet(invoked) : t.kind = "eviction"
    /\ cache.goroutines = EmptyBag

\* C12: once a Close has returned on a cache with a cleaner, the cleaner's
\* loop has exited and stays so, it runs no DeleteExpired, and every later
\* change of items or expirations is the effect of a caller's operation.
C12_CleanerStoppedAfterClose ==
    [][(Closed /\ ~cache.cleaner.nil) =>
          /\ cache.cleaner.pc = "returned"
          /\ cache'.cleaner = cache.cleaner
          /\ ~SameMaps(cache, cache') => nOps' = nOps + 1]_vars

\* C12 witness: Close returned, the loop has exited, and an item whose expiry
\* has passed is still in items and in expirations: nothing sweeps any more.
C12_Witness ==
    /\ Closed
    /\ cache.cleaner.pc = "returned"
    /\ \E k \in DOMAIN cache.items :
          /\ CanExpire(cache.items[k])
          /\ After(now, cache.items[k].ExpiresAt)
          /\ k \in DOMAIN cache.expirationsQueue

\* C14: built with cleanupInterval <= 0 the cache has no cleaner: items and
\* expirations change only by a caller's operation (an expired item stays in
\* items until then), and Close never waits to signal a cleaner.
C14_NoCleanerWithoutInterval ==
    [][config.cleanupInterval <= 0 =>
          /\ cache.cleaner = NilCleaner
          /\ ~SameMaps(cache, cache') => nOps' = nOps + 1
          /\ \A p \in Procs : pc[p] \notin AtSignal]_vars

\* C14 witness: without a cleaner an item expired a tick ago is still in
\* items (Has is true, Len counts it) and a Close has returned.
C14_Witness ==
    /\ config.cleanupInterval <= 0
    /\ Closed
    /\ \E k \in Keys :
          /\ Has(cache, k)
          /\ Expired(cache.items[k], now)
          /\ CacheLen(cache) = 1

\* C15: Close is idempotent: a Close called on a cache whose cleaner was
\* started, after an earlier Close returned, returns too; it is never left
\* waiting to hand its signal to a loop that has already exited.
C15_SecondCloseReturns ==
    \A p \in Procs : pc[p] = "reclose_signal" => cache.cleaner.pc # "returned"

\* The item of key k in items expires at e.
ItemExpiresAt(k, e) == Has(cache, k) /\ cache.items[k].ExpiresAt = e
\* The expirations index holds e for key k.
IndexHolds(k, e) ==
    k \in DOMAIN cache.expirationsQueue /\ cache.expirationsQueue[k] = e

\* C13: with a cleaner running and Close not called, an item whose expiresAt
\* has come is in the end out of items and out of expirations with no caller
\* running Delete or DeleteExpired, the ticker ticking and the cleaner being
\* scheduled (or else Close is called first).
C13_CleanerRemovesExpired ==
    \A k \in Keys, e \in 2..MaxTime :
        (/\ ~cache.cleaner.nil /\ ~CloseCalled
         /\ ItemExpiresAt(k, e) /\ ~Before(now, e))
        ~> (CloseCalled \/ (~ItemExpiresAt(k, e) /\ ~IndexHolds(k, e)))

\* C13 witness: the only operation was a set with ttl > 0, no Close was
\* called, and the key is out of both maps: the cleaner took it.
C13_Witness ==
    /\ ~cache.cleaner.nil
    /\ ~CloseCalled
    /\ nOps = 1
    /\ lastOp.name = "Set"
    /\ stored[lastOp.key].ttl > 0
    /\ ~Has(cache, lastOp.key)
    /\ lastOp.key \notin DOMAIN cache.expirationsQueue

\* The section p is in changes items or expirationsQueue.
Writes(p) ==
    /\ Inside(p)
    /\ ~SameMaps(SectionEffect(p), cache)

\* C17: items and expirations are written only while c.mu is held by
\* Lock(), and while one goroutine is in a section that writes them no other
\* goroutine is in any section; goroutines are in sections together only as
\* readers, and then c.mu is held shared by each of them.
C17_ThreadSafe ==
    /\ \A p \in Procs : Writes(p) => readers = -1
    /\ \A p, q \in Procs :
          (p # q /\ Inside(p) /\ Inside(q)) =>
              /\ ~Writes(p) /\ ~Writes(q)
              /\ readers >= 2

\* C17 witness: a goroutine is inside evict, holding the lock, while another
\* waits to enter get.
C17_Witness ==
    \E p, q \in Procs :
        /\ Inside(p) /\ loc[p].then = "evict"
        /\ pc[q] = "want" /\ loc[q].then = "get"
        /\ readers = -1
        /\ Has(cache, loc[p].key)

\* Some goroutine in a call, or some callback, can take a step.
CanStep ==
    \/ \E p \in Procs : ENABLED Acquire(p)
    \/ \E p \in Procs : ENABLED Release(p)
    \/ ENABLED RunCallbackLen

\* C16: no store operation blocks for ever: while a call or a callback is
\* under way some goroutine can step (no deadlock), and under fair scheduling
\* every call returns and every callback ends.
C16_NoOperationBlocks ==
    /\ []((\E p \in Procs : pc[p] # "idle") \/ cache.goroutines # EmptyBag => CanStep)
    /\ \A p \in Procs : (pc[p] # "idle") ~> (pc[p] = "idle")
    /\ (cache.goroutines # EmptyBag) ~> (cache.goroutines = EmptyBag)

\* C16 witness: a DeleteExpired is inside its evict, holding the lock, while
\* the other goroutine waits for the lock and a callback is still to run.
C16_Witness ==
    \E p, q \in Procs :
        /\ Inside(p) /\ loc[p].arg = "DeleteExpired" /\ loc[p].then = "evict"
        /\ pc[q] = "want"
        /\ cache.goroutines # EmptyBag

\* C21: Delete(k) of a key that is not in items changes nothing: items,
\* expirations and the four counters stay as they are and no callback
\* goroutine is started.
C21_DeleteAbsentIsNoOp ==
    [][(lastOp'.name = "Delete" /\ nOps' = nOps + 1 /\ ~Has(cache, lastOp'.key)) =>
          /\ SameMaps(cache', cache)
          /\ cache'.metrics = cache.metrics
          /\ cache'.goroutines = cache.goroutines
          /\ cache'.eventHandlers = cache.eventHandlers]_vars

\* C21 witness: with metrics on and an eviction callback registered, a Delete
\* of a key that was not there returned; the one key set is still stored.
C21_Witness ==
    /\ lastOp.name = "Delete"
    /\ ~Has(cache, lastOp.key)
    /\ config.enableMetrics
    /\ cache.eventHandlers.onEviction = "f"
    /\ Insertions(cache.metrics) = 1
    /\ Evictions(cache.metrics) = 0
    /\ CacheLen(cache) = 1

\* Key k holds an item that is expired and still in items.
HoldsExpired(c, k, t) ==
    Has(c, k) /\ c.items[k].Value # NIL /\ Expired(c.items[k], t)

\* A step of the public operation of that name.
OpStep(name) == lastOp'.name = name /\ nOps' = nOps + 1

C23_DeleteAllEmpties ==
    [][OpStep("DeleteAll") =>
          /\ CacheLen(cache') = 0
          /\ CacheKeys(cache') = {}
          /\ \A k \in Keys : getValue(cache', k, now') = NIL
          /\ cache'.goroutines = cache.goroutines
          /\ cache'.eventHandlers = cache.eventHandlers
          /\ Evictions(cache'.metrics) = Evictions(cache.metrics)]_vars

\* C23 witness: a DeleteAll took two stored keys, with metrics on and an
\* eviction callback registered; only the two insertion callbacks were started.
C23_Witness ==
    /\ lastOp.name = "DeleteAll"
    /\ config.enableMetrics
    /\ cache.eventHandlers.onEviction = "f"
    /\ Insertions(cache.metrics) = 2
    /\ Evictions(cache.metrics) = 0
    /\ CacheLen(cache) = 0
    /\ BagCardinality(cache.goroutines) = 2
    /\ \A k \in Keys : k \in DOMAIN cache.expirationsQueue

\* C24: in a cache built without metrics, Insertions, Hits, Misses and
\* Evictions each read 0 whatever operations were performed.
C24_NoMetricsReadZero ==
    ~config.enableMetrics =>
        /\ Insertions(cache.metrics) = 0
        /\ Hits(cache.metrics) = 0
        /\ Misses(cache.metrics) = 0
        /\ Evictions(cache.metrics) = 0

\* C24 witness: without metrics, a set, a get and a removal have been done.
C24_Witness ==
    /\ ~config.enableMetrics
    /\ calls.sets = 1
    /\ calls.gets = 1
    /\ calls.removed = 1
    /\ nOps = 3

\* The caller's handle and the metrics object read through it.
Handle == loc[1].m
Held == Deref(cache, Handle)

\* C25: ResetMetrics zeroes the four counters in place: read through a
\* handle obtained before the reset each is 0 right after it; and the handle
\* keeps showing what is done afterwards: the sets and the gets since the
\* last reset.
C25_ResetInPlace ==
    /\ [][(OpStep("ResetMetrics") /\ Handle.kind # "nil") =>
              /\ Handle' = Handle
              /\ Insertions(Deref(cache', Handle)) = 0
              /\ Hits(Deref(cache', Handle)) = 0
              /\ Misses(Deref(cache', Handle)) = 0
              /\ Evictions(Deref(cache', Handle)) = 0]_vars
    /\ []((config.enableMetrics /\ Handle.kind # "nil") =>
              /\ Insertions(Held) = calls.sets
              /\ Hits(Held) + Misses(Held) = calls.gets)

\* C25 witness: a handle obtained before the first operation; then a set, a
\* ResetMetrics and a set of the other key: the handle reads one insertion.
C25_Witness ==
    /\ config.enableMetrics
    /\ Handle.kind # "nil" /\ Handle.ops = 0
    /\ nOps = 3
    /\ lastOp.name = "Set"
    /\ CacheLen(cache) = 2
    /\ Insertions(Held) = 1
    /\ calls.sets = 1

\* The positions of keys at which get finds a live value in c at time t.
LiveAt(c, keys, t) == {i \in 1..Len(keys) : get(c, keys[i], t).value # NIL}

\* C30: GetMultiple(keys) returns a list as long as keys whose i-th element
\* is what get(keys[i]) returns, nil where the key is absent or expired, and
\* it counts one hit or one miss for each element; it changes neither map.
C30_GetMultiplePositional ==
    [][OpStep("GetMultiple") =>
          LET keys == loc'[1].batch
              values == loc'[1].values
              live == LiveAt(cache, keys, now)
          IN  /\ Len(values) = Len(keys)
              /\ \A i \in 1..Len(keys) : values[i] = get(cache, keys[i], now).value
              /\ \A i \in 1..Len(keys) :
                    (~Has(cache, keys[i]) \/ HoldsExpired(cache, keys[i], now))
                        => values[i] = NIL
              /\ Hits(cache'.metrics) + Misses(cache'.metrics) =
                    Hits(cache.metrics) + Misses(cache.metrics)
                        + (IF config.enableMetrics THEN Len(keys) ELSE 0)
              /\ Hits(cache'.metrics) =
                    Hits(cache.metrics)
                        + (IF config.enableMetrics THEN Cardinality(live) ELSE 0)
              /\ SameMaps(cache', cache)]_vars

\* C30 witness: GetMultiple of two keys returned nil for the first, whose
\* item is expired and still stored, and the value of the second.
C30_Witness ==
    /\ lastOp.name = "GetMultiple"
    /\ Len(loc[1].batch) = 2
    /\ Len(loc[1].values) = 2
    /\ loc[1].values[1] = NIL
    /\ loc[1].values[2] # NIL
    /\ HoldsExpired(cache, loc[1].batch[1], now)
    /\ config.enableMetrics
    /\ Hits(cache.metrics) = 1
    /\ Misses(cache.metrics) = 1

\* The callback invocation a set of (key, value) calls for when fn is
\* registered for insertions.
InsertionTask(fn, key, value) ==
    [kind |-> "insertion", fn |-> fn, key |-> key, arg |-> BoxValue(value)]

InsertionTasks ==
    {InsertionTask(fn, key, value) : fn \in Handlers, key \in Keys, value \in Values}

\* The callback goroutines started so far: those still to run and those run.
Started == cache.goroutines (+) invoked

\* C26: a set made while fn is registered for insertions starts exactly one
\* callback goroutine, for fn with the key and the value of the set, also
\* when the key is overwritten; nothing but a set starts one for insertions;
\* and every goroutine started runs in the end, once.
C26_SetInvokesInsertionCallback ==
    /\ [][(OpStep("Set") /\ cache.eventHandlers.onInsertion # "default") =>
              LET key == lastOp'.key
                  task == InsertionTask(cache.eventHandlers.onInsertion, key,
                                        stored'[key].value)
              IN  /\ cache'.goroutines = cache.goroutines (+) SetToBag({task})
                  /\ invoked' = invoked]_vars
    /\ [][\A task \in InsertionTasks :
              CopiesIn(task, Started') # CopiesIn(task, Started) => OpStep("Set")]_vars
    /\ \A task \in InsertionTasks : \A n \in 1..MaxOps :
          (CopiesIn(task, Started) >= n) ~> (CopiesIn(task, invoked) >= n)
    /\ [](\A task \in InsertionTasks : CopiesIn(task, invoked) <= calls.sets)

\* C26 witness: a key was set twice with the same value while f was
\* registered, and f has run twice for it.
C26_Witness ==
    \E key \in Keys :
        /\ cache.eventHandlers.onInsertion = "f"
        /\ calls.sets = 2
        /\ CacheLen(cache) = 1
        /\ CopiesIn(InsertionTask("f", key, "v1"), invoked) = 2

\* The callback goroutines a step starts.
NewTasks == cache'.goroutines (-) cache.goroutines

\* The function registered in the slot of that kind of event.
Slot(c, kind) ==
    IF kind = "insertion" THEN c.eventHandlers.onInsertion ELSE c.eventHandlers.onEviction

\* C27: a registration replaces what its slot held and leaves the other
\* slot alone, and an event starts one goroutine, for the function its slot
\* holds at that moment: after OnEviction(f) and then OnEviction(g) an
\* eviction is told to g only, and likewise for insertions.
C27_RegistrationReplaces ==
    /\ [][\A fn \in Handlers :
              /\ OnEviction(fn) =>
                    /\ cache'.eventHandlers.onEviction = fn
                    /\ cache'.eventHandlers.onInsertion = cache.eventHandlers.onInsertion
              /\ OnInsertion(fn) =>
                    /\ cache'.eventHandlers.onInsertion = fn
                    /\ cache'.eventHandlers.onEviction = cache.eventHandlers.onEviction]_vars
    /\ [][(OpStep("Set") \/ OpStep("Delete")) =>
              /\ BagCardinality(NewTasks) <= 1
              /\ \A task \in BagToSet(NewTasks) : task.fn = Slot(cache, task.kind)
              /\ cache'.eventHandlers.onEviction = cache.eventHandlers.onEviction
              /\ cache'.eventHandlers.onInsertion = cache.eventHandlers.onInsertion]_vars
    /\ [][\A task \in BagToSet(invoked' (-) invoked) : CopiesIn(task, cache.goroutines) >= 1]_vars

\* C27 witness: f was registered for insertions and a set was told to it;
\* then g was registered, and the next set has been told to g and not to f.
C27_Witness ==
    \E key \in Keys, j \in Keys, v \in Values, w \in Values :
        /\ cache.eventHandlers.onInsertion = "g"
        /\ calls.sets = 2
        /\ lastOp.name = "Set" /\ lastOp.key = j
        /\ stored[j].value = w
        /\ CopiesIn(InsertionTask("f", key, v), invoked) = 1
        /\ CopiesIn(InsertionTask("g", j, w), invoked) = 1
        /\ BagCardinality(invoked) = 2
        /\ cache.goroutines = EmptyBag

\* The section p is in is one that dispatches to a registered callback.
Dispatches(p) ==
    /\ Inside(p)
    /\ loc[p].then \in {"set", "evict"}
    /\ SectionEffect(p).goroutines # cache.goroutines

\* C28: callbacks never stall the store.  A set or an evict that starts a
\* callback leaves its section with c.mu free and the callback still to
\* run; while callers are in calls one of them can step, whatever the
\* callbacks do; and every call returns though no callback ever does.
C28_CallbacksNeverStall ==
    /\ [][\A p \in Procs :
              (Dispatches(p) /\ pc'[p] # "in") =>
                  /\ readers' = 0
                  /\ cache'.goroutines # EmptyBag
                  /\ loc[p].then = "set" => pc'[p] = "idle"]_vars
    /\ []((\E p \in Procs : pc[p] # "idle") =>
              \E p \in Procs : ENABLED Acquire(p) \/ ENABLED Release(p))
    /\ \A p \in Procs : (pc[p] # "idle") ~> (pc[p] = "idle")

\* C28 witness: two callbacks are started and none has run; a goroutine is
\* inside a section of a third call.
C28_Witness ==
    \E p \in Procs :
        /\ BagCardinality(cache.goroutines) = 2
        /\ invoked = EmptyBag
        /\ nOps = 3
        /\ Inside(p)
        /\ \A q \in Procs \ {p} : pc[q] = "idle"

\* A step of a Close: its test of c.cleaner, its signal to the cleaner or
\* the return of its Wait.
CloseStep == \E p \in Procs : CloseStart(p) \/ CleanerClose(p) \/ CloseWait(p)

\* C29: Close leaves the stored data as it is: no step of a Close changes
\* items or expirations, and get, Has and Len answer after the step as they
\* did before it.
C29_CloseKeepsData ==
    [][CloseStep =>
          /\ SameMaps(cache', cache)
          /\ CacheLen(cache') = CacheLen(cache)
          /\ \A k \in Keys :
                /\ Has(cache', k) <=> Has(cache, k)
                /\ getValue(cache', k, now') = getValue(cache, k, now)]_vars

\* C29 witness: a Close has returned, the cleaner has stopped, and two keys
\* are stored as before, one of them expired by now and still indexed.
C29_Witness ==
    /\ lastOp.name = "Close"
    /\ cache.cleaner.pc = "returned"
    /\ CacheLen(cache) = 2
    /\ \E k \in Keys :
          /\ HoldsExpired(cache, k, now)
          /\ k \in DOMAIN cache.expirationsQueue
    /\ \E k \in Keys : getValue(cache, k, now) # NIL

\* Number of eviction callbacks dispatched so far.
EvictionsDispatched(c, inv) ==
    LET all == c.goroutines (+) inv
    IN  BagCardinality([t \in {u \in BagToSet(all) : u.kind = "eviction"} |-> all[t]])

\* The operations that reach evict.
Evicting == {"Delete", "GetDelete", "DeleteExpired"}

\* C34: eviction is the single choke point: only a step of Delete, GetDelete
\* or DeleteExpired dispatches an eviction callback or changes the evictions
\* counter; Set (an overwrite too), Get, GetMultiple, Keys, Len, Has and
\* DeleteAll do neither.
C34_EvictionChokePoint ==
    /\ [][(\/ EvictionsDispatched(cache', invoked') # EvictionsDispatched(cache, invoked)
           \/ Evictions(cache'.metrics) # Evictions(cache.metrics))
              => \E name \in Evicting : OpStep(name)]_vars
    /\ [][(\E name \in {"Set", "Get", "GetMultiple", "Keys", "Len", "Has", "DeleteAll"} :
               OpStep(name)) =>
              /\ EvictionsDispatched(cache', invoked') = EvictionsDispatched(cache, invoked)
              /\ Evictions(cache'.metrics) = Evictions(cache.metrics)]_vars

\* C34 witness: two sets and nothing else, the second overwriting the key of
\* the first; one item is stored, two insertion callbacks were dispatched,
\* no eviction callback was dispatched and the evictions counter is 0.
C34_Witness ==
    /\ lastOp.name = "Set"
    /\ nOps = 2
    /\ calls.sets = 2
    /\ Insertions(cache.metrics) = 2
    /\ CacheLen(cache) = 1
    /\ BagCardinality(cache.goroutines) + BagCardinality(invoked) = 2
    /\ EvictionsDispatched(cache, invoked) = 0
    /\ Evictions(cache.metrics) = 0
    /\ cache.eventHandlers.onEviction = "f"

\* A key whose stored value is the nil sentinel.
HoldsNil(c, k) == k \in DOMAIN c.items /\ c.items[k].Value = NIL

\* C35: storing nil makes a key unreadable. While items holds k with a nil
\* value, every Get(k) returns nil and counts one miss and no hit, k stays
\* in items (Has is true, Keys lists it, Len counts it), and GetDelete(k)
\* returns nil, counts one miss and does not remove k.
C35_NilIsUnreadable ==
    /\ [][\A k \in Keys :
              (HoldsNil(cache, k) /\ lastOp'.key = k
                   /\ (OpStep("Get") \/ OpStep("GetDelete"))) =>
                  /\ lastOp'.ret = NIL
                  /\ Misses(cache'.metrics) = Misses(cache.metrics) + 1
                  /\ Hits(cache'.metrics) = Hits(cache.metrics)
                  /\ SameMaps(cache', cache)
                  /\ Has(cache', k)
                  /\ HoldsNil(cache', k)]_vars
    /\ [](\A k \in Keys : HoldsNil(cache, k) =>
              /\ Has(cache, k)
              /\ k \in CacheKeys(cache)
              /\ CacheLen(cache) >= Cardinality({j \in Keys : HoldsNil(cache, j)})
              /\ CacheLen(cache) >= 1
              /\ getValue(cache, k, now) = NIL)
    /\ [][\A k \in Keys :
              (stored'[k] # None /\ stored'[k].value = NIL
                   /\ lastOp'.key = k /\ OpStep("Set")) => HoldsNil(cache', k)]_vars

\* C35 witness: Set(k, nil), Get(k), GetDelete(k): both reads returned nil,
\* two misses and no hit were counted, and k is still stored.
C35_Witness ==
    \E k \in Keys :
        /\ lastOp = [name |-> "GetDelete", key |-> k, ret |-> NIL]
        /\ nOps = 3
        /\ calls.sets = 1
        /\ calls.gets = 2
        /\ HoldsNil(cache, k)
        /\ stored[k] # None
        /\ stored[k].value = NIL
        /\ Misses(cache.metrics) = 2
        /\ Hits(cache.metrics) = 0
        /\ CacheLen(cache) = 1
        /\ Evictions(cache.metrics) = 0

\* The index entry of k is the expiry of the item stored under k.
IndexCurrent(c, k) ==
    /\ k \in DOMAIN c.items
    /\ k \in DOMAIN c.expirationsQueue
    /\ c.expirationsQueue[k] = c.items[k].ExpiresAt

\* C37 as stated: the sweep and get agree on what is expired. A
\* DeleteExpired never removes an item (whose index entry is current) for
\* which a get at the same instant returns the value, and it collects
\* exactly the keys whose item Item.Expired reports expired.
C37_AsStated ==
    [][OpStep("DeleteExpired") =>
          \A k \in Keys :
              IndexCurrent(cache, k) =>
                  /\ (getValue(cache, k, now) # NIL => Has(cache', k))
                  /\ (k \in expiredKeys(cache, now) <=> Expired(cache.items[k], now))]_vars

\* C37: the sweep collects the keys whose index entry is at or before now,
\* Item.Expired holds only after it. For an item whose index entry is
\* current, a DeleteExpired removes it iff now >= expiresAt; it agrees with
\* get strictly before and strictly after expiresAt, and at the instant
\* now = expiresAt get still returns the value while the sweep removes it.
C37_SweepAtOrBefore ==
    [][OpStep("DeleteExpired") =>
          \A k \in Keys :
              IndexCurrent(cache, k) =>
                  LET item == cache.items[k]
                  IN  /\ Has(cache', k) <=> Before(now, item.ExpiresAt)
                      /\ Expired(item, now) => ~Has(cache', k)
                      /\ now # item.ExpiresAt =>
                             (k \in expiredKeys(cache, now) <=> Expired(item, now))
                      /\ now = item.ExpiresAt =>
                             /\ ~Expired(item, now)
                             /\ getValue(cache, k, now) = item.Value
                             /\ ~Has(cache', k)]_vars

\* C37 witness: a DeleteExpired ran at the instant a live, readable item
\* expires and removed it.
C37_Witness ==
    \E k \in Keys :
        /\ lastOp.name = "DeleteExpired"
        /\ stored[k] # None
        /\ stored[k].value # NIL
        /\ stored[k].ttl > 0
        /\ stored[k].swept
        /\ now = stored[k].at + stored[k].ttl
        /\ ~Has(cache, k)
        /\ calls.sets = 1
        /\ calls.removed = 1
        /\ Evictions(cache.metrics) = 1

\* The eviction callbacks a step dispatches.
NewEvictions == {t \in BagToSet(NewTasks) : t.kind = "eviction"}

\* C38: an eviction callback is dispatched, and the evictions counter
\* incremented, only for a key that is in items when evict runs. With one
\* caller, every eviction callback a step dispatches is for a key the step
\* took out of items, and the counter grows by the number of keys it took
\* out; a DeleteExpired after a DeleteAll dispatches none.
C38_EvictsOnlyPresentKeys ==
    /\ [][\A t \in NewEvictions : t.key \in DOMAIN cache.items \ DOMAIN cache'.items]_vars
    /\ [][Evictions(cache'.metrics) - Evictions(cache.metrics) = Removed(cache, cache')
              \/ OpStep("DeleteAll")]_vars
    /\ [][(OpStep("DeleteExpired") /\ lastOp.name = "DeleteAll") =>
              /\ NewEvictions = {}
              /\ Evictions(cache'.metrics) = Evictions(cache.metrics)]_vars

\* Number of callbacks of a kind dispatched so far for key k.
DispatchedFor(kind, k) ==
    LET all == Started
    IN  BagCardinality([t \in {u \in BagToSet(all) : u.kind = kind /\ u.key = k} |-> all[t]])

\* C31: exactly-once eviction under concurrency. With both callbacks
\* registered, every set of k dispatches one insertion callback, so k has
\* left the cache at most as often as insertion callbacks were dispatched
\* for it: the eviction callbacks dispatched for k never outnumber them, and
\* an evict dispatches its callback only while k is in items.
C31_ExactlyOnceEviction ==
    /\ [](\A k \in Keys : DispatchedFor("eviction", k) <= DispatchedFor("insertion", k))
    /\ [][\A p \in Procs :
              (pc[p] = "in" /\ pc'[p] # "in" /\ loc[p].then = "evict"
                   /\ loc[p].arg \in {"Delete", "GetDelete"}
                   /\ NewEvictions # {}) => Has(cache, loc[p].key)]_vars

\* The critical sections that only read the maps.
ReadOnlySections == {"get", "keys", "len", "has", "collect"}

\* C36: read-only operations take the lock in shared mode only. A goroutine
\* inside the section of get, Keys, Len, Has or the collection of
\* DeleteExpired holds c.mu shared, never exclusively.
C36_ReadersShareLock ==
    \A p \in Procs :
        (Inside(p) /\ loc[p].then \in ReadOnlySections) => readers >= 1

\* Goroutine p runs a DeleteExpired that collected k, is at the evict of k,
\* and k meanwhile holds an item that expires only after now: a set put it
\* there after the collection.
SweepHoldsStale(p, k) ==
    /\ pc[p] \in {"want", "in"}
    /\ loc[p].arg = "DeleteExpired"
    /\ loc[p].then = "evict"
    /\ loc[p].key = k
    /\ Has(cache, k)
    /\ Before(now, cache.items[k].ExpiresAt)

\* C32: the two-phase sweep race. Whenever a DeleteExpired has collected k
\* and k is re-inserted with an unexpired item before the sweep's evict,
\* nothing stops the sweep (it can take the lock as soon as it is free) and
\* its evict removes the fresh item from items and from the index and
\* dispatches an eviction callback for it.
C32_SweepEvictsFreshItem ==
    /\ [](\A p \in Procs, k \in Keys :
              (SweepHoldsStale(p, k) /\ pc[p] = "want" /\ readers = 0) =>
                  ENABLED Acquire(p))
    /\ [][\A p \in Procs, k \in Keys :
              (SweepHoldsStale(p, k) /\ pc[p] = "in" /\ pc'[p] # "in") =>
                  /\ ~Has(cache', k)
                  /\ k \notin DOMAIN cache'.expirationsQueue
                  /\ \E t \in NewEvictions :
                         t.key = k /\ t.arg = BoxItem(cache.items[k])]_vars

\* C32 witness: DeleteExpired and a concurrent Set(k) have both returned; k
\* is absent from items, and the eviction callback dispatched for k carries
\* an item that has not expired.
C32_Witness ==
    \E p, q \in Procs, k \in Keys :
        /\ p # q
        /\ \A r \in Procs : pc[r] = "idle"
        /\ loc[p].arg = "DeleteExpired"
        /\ loc[q].arg = "Set"
        /\ loc[q].key = k
        /\ nOps = 3
        /\ ~Has(cache, k)
        /\ DispatchedFor("insertion", k) = 2
        /\ DispatchedFor("eviction", k) = 1
        /\ \E t \in BagToSet(Started) :
               /\ t.kind = "eviction"
               /\ t.key = k
               /\ Before(now, t.arg.item.ExpiresAt)

\* Goroutine p is between the two halves of a compound operation.
BetweenHalves(p) == pc[p] \in {"setget_get", "getset_set", "delete_evict"}

\* The goroutines inside get's critical section, holding c.mu shared.
InGet == {p \in Procs : pc[p] \in {"get_load", "get_store"}}

\* C33: compound operations are not atomic. Between its two halves a
\* SetGet, GetSet or GetDelete holds no lock (c.mu is held only by the
\* goroutines inside a get), so an idle goroutine can set the same key as
\* soon as no reader is inside; and the second half acts on whatever it
\* then finds: GetSet's set writes its value, GetDelete's evict removes the
\* key whatever its value, SetGet's get returns the latest value.
C33_CompoundNotAtomic ==
    /\ [](readers = Cardinality(InGet))
    /\ [](\A p, q \in Procs :
              (BetweenHalves(p) /\ pc[q] = "idle" /\ nOps < MaxCalls /\ InGet = {}) =>
                  ENABLED SetC(q, loc[p].key, "v1", 0))
    /\ [][\A p \in Procs :
              /\ (pc[p] = "getset_set" /\ pc'[p] = "idle") =>
                     cache'.items[loc[p].key].Value = loc[p].arg
              /\ (pc[p] = "delete_evict" /\ pc'[p] = "idle") =>
                     ~Has(cache', loc[p].key)
              /\ (pc[p] = "setget_get" /\ pc'[p] = "get_load") =>
                     loc'[p].value = Lookup(cache.items, loc[p].key).Value]_vars

\* C33 witness: Set(k, v1), then two concurrent GetSet(k, v2) have both
\* returned the same old value v1.
C33_Witness ==
    \E p, q \in Procs, k \in Keys :
        /\ p # q
        /\ pc[p] = "idle" /\ pc[q] = "idle"
        /\ loc[p].then = "set" /\ loc[q].then = "set"
        /\ loc[p].key = k /\ loc[q].key = k
        /\ loc[p].value = "v1" /\ loc[q].value = "v1"
        /\ calls.sets = 3
        /\ calls.gets = 2
        /\ cache.items[k].Value = "v2"

\* The callbacks that did their store operation in this step.
RanNow == BagToSet(invoked' (-) invoked)

\* C39: an insertion callback never observes the store before its own
\* insertion. The callback goroutine is started before the item is written,
\* but its store operation runs only while no set or evict is inside its
\* critical section, so the set that dispatched it has written its item; it
\* reads the current state of the key: the value of its own set, or what a
\* later set or eviction of the key left, and while nothing was evicted the
\* key is present.
C39_CallbackSeesOwnInsertion ==
    /\ [][\A t \in RanNow :
              t.kind = "insertion" =>
                  /\ \A p \in Procs : pc[p] \notin {"set_dispatch", "set_store", "evict_in"}
                  /\ readers >= 0
                  /\ lastOp'.name = "Callback"
                  /\ lastOp'.key = t.key
                  /\ lastOp'.ret = Lookup(cache.items, t.key).Value
                  /\ calls.removed = 0 => Has(cache, t.key)
                  /\ calls.sets >= 1
                  /\ \/ lastOp'.ret = t.arg.item.Value
                     \/ \E u \in BagToSet(Started) :
                            /\ u.key = t.key
                            /\ \/ u.kind = "insertion" /\ u.arg.item.Value = lastOp'.ret
                               \/ u.kind = "eviction" /\ lastOp'.ret = NIL]_vars
    /\ [](\A p \in Procs : pc[p] \in {"set_dispatch", "set_store"} => readers = -1)

\* C39 witness: the callback of the first Set(k, v) ran its Get(k) after the
\* set had returned and read v.
C39_Witness ==
    \E k \in Keys, v \in {"v1", "v2"} :
        /\ lastOp = [name |-> "Callback", key |-> k, ret |-> v]
        /\ nOps = 1
        /\ calls.sets = 1
        /\ \A p \in Procs : pc[p] = "idle"
        /\ BagCardinality(invoked) = 1
        /\ \E t \in BagToSet(invoked) :
               t.kind = "insertion" /\ t.key = k /\ t.arg = BoxValue(v)
        /\ cache.goroutines = EmptyBag
        /\ cache.eventHandlers.wg = 0
        /\ cache.items[k].Value = v

\* C40: callback registration is race-free with store operations. No
\* OnInsertion is about to write the insertion slot while a set is inside
\* its critical section before its read of the slot, and no OnEviction is
\* about to write the eviction slot while an evict is inside its critical
\* section.
C40_RegistrationOrdered ==
    \A p, q \in Procs :
        pc[p] = "reg_write" =>
            /\ ~(loc[p].arg = "insertion" /\ pc[q] = "set_dispatch")
            /\ ~(loc[p].arg = "eviction" /\ pc[q] = "evict_in")

====
